---- MODULE Spec2Model ----
(***************************************************************************)
(* Outbound delivery reliability layer of bun-redis-starter:               *)
(*   - WebhookService.sendWebhook        (retry loop, delivery log)        *)
(*   - ApiClientService.makeApiCall      (retry loop, request log)         *)
(*   - POST /api-configs/:id/call        (circuit breaker around the call) *)
(*   - RateLimitService                  (fixed window, sliding window,    *)
(*                                        circuit breaker on Redis)        *)
(* Every Redis command is one atomic step; an await between two commands   *)
(* is a point where other callers and the clock may move.                  *)
(***************************************************************************)
EXTENDS Integers, Sequences, FiniteSets, TLC

----------------------------------------------------------------------------
(* Bounds of the model *)

\* largest retryAttempts stored in a target (the schema accepts 0..10)
MaxRetryAttempts == 2

\* windowMs passed to the limiters, in ms (not a multiple of 1000, so that the
\* rounding of the key's TTL to whole seconds matters)
WindowMs == 1500
\* maxRequests passed to the limiters
MaxRequests == 2
\* the clock moves in steps of this many ms
LimiterTickMs == 500
\* the clock stops here
MaxClock == 3000
\* limiter calls in one run
MaxCalls == 4
\* calls of checkRateLimit and getRateLimitStats in one run that mixes all the
\* limiter's operations
MaxLimiterOps == 2
\* clock steps in one run of the circuit breaker
MaxTicks == 3
\* circuit-breaker calls in one run
MaxBreakerOps == 8

\* Date.now() when a circuit-breaker run starts (any positive instant)
Epoch == 1000
\* requests the handler of POST /api-configs/:id/call receives
MaxRouteCalls == 3
\* clock steps while the handler serves requests
MaxRouteTicks == 2
\* notifications enqueued in one run
MaxNotifications == 3
\* clock steps of the notification queue, and their size in ms
MaxNqTicks == 1
NqStep == 500
\* notifications enqueued while processScheduledNotifications is studied
MaxPromoted == 2
\* notifications enqueued while enqueueNotification is studied alone
MaxEnqueued == 2
\* notifications enqueued while concurrent consumers are studied
MaxConsumed == 2
\* sends requested over HTTP
MaxSends == 2
\* the largest per-minute limit configured
MaxLimit == 2
\* broadcasts made
MaxBroadcasts == 1

(* Program constants *)

\* webhook.ts:127  `webhookConfig.retryAttempts || 3`
WebhookFallbackRetries == 3
\* webhook.ts:154  `Math.pow(2, attempt) * 1000`
WebhookBaseDelay == 1000
\* config/index.ts:73  config.externalApis.retryAttempts
ConfigRetryAttempts == 3
\* config/index.ts:74  config.externalApis.retryDelay
ConfigRetryDelay == 1000

\* part_002:131  failureThreshold: number = 5
FailureThreshold == 5
\* part_002:132  recoveryTimeout: number = 60000
RecoveryTimeout == 60000
\* part_002:185  expire(key, 3600)
BreakerTtlSeconds == 3600
\* part_011:122  EMAIL_RATE_LIMIT || '60'
EmailPerMinute == 60
\* part_011:123  SMS_RATE_LIMIT || '10'
SmsPerMinute == 10
\* part_011:124  PUSH_RATE_LIMIT || '1000'
PushPerMinute == 1000
\* an absent (null / undefined) number
Null == 0 - 1

RECURSIVE Pow2(_)
\* Math.pow(2, n)
Pow2(n) == IF n = 0 THEN 1 ELSE 2 * Pow2(n - 1)

\* JavaScript `a || b` on numbers: 0, null and undefined are falsy
JsOr(a, b) == IF a = Null \/ a = 0 THEN b ELSE a

\* JavaScript `a ?? b`: only null and undefined fall through
JsNullish(a, b) == IF a = Null THEN b ELSE a

----------------------------------------------------------------------------
VARIABLES
    \* ---- WebhookService.sendWebhook, one logical delivery
    whCfg,              \* the webhook_configs row read at line 112
    whPc,               \* "idle" | "attempt" | "sleep" | "done"
    whAttempt,          \* loop variable `attempt`
    whMaxRetries,       \* local `maxRetries`
    webhookDeliveries,  \* rows inserted into webhook_deliveries by this delivery
    whSleeps,           \* the delays passed to this.delay, in order
    whOutcome,          \* how sendWebhook ended
    \* ---- ApiClientService.makeApiCall, per caller (one logical delivery each)
    apiCfg,             \* the external_api_configs row read at line 132
    apiReq,             \* the request: [badUrl]
    apiPc,              \* position of the caller, see ApiPcs
    apiAttempt,         \* loop variable `attempt`
    apiMaxRetries,      \* local `maxRetries`
    apiRetryDelay,      \* local `retryDelay`
    integrationRequests,\* rows this call inserted into integration_requests
    apiSleeps,          \* the delays passed to this.delay, in order
    apiOutcome,         \* how makeApiCall ended
    \* ---- Redis and the clock
    now,                \* Date.now() and the server clock of Redis, in ms
    rlStore,            \* keys rate_limit:<id>:<windowStart> -> [count, expireAt]
    rlPc,               \* per caller: "idle" | "exec"
    rlLocal,            \* per caller: locals of checkRateLimit
    rlResults,          \* what the checkRateLimit calls returned, in order
    swStore,            \* key sliding_rate_limit:<id>: [scores, expireAt]
    swResults,          \* what the checkSlidingWindowRateLimit calls returned
    cb,                 \* hash circuit_breaker:<id>: [state, failureCount, lastFailureTime, expireAt]
    ticks,              \* clock steps taken
    cbOps,              \* breaker calls made
    cbCheck,            \* what the last checkCircuitBreaker returned
    cbStreak,           \* failures recorded since the last success: [n, lastAt, lapsed]
    \* ---- POST /api-configs/:id/call, per caller
    routePc,            \* position of the handler, see RoutePcs
    routeCheck,         \* state returned by checkCircuitBreaker to this request
    routeLocal,         \* locals of recordCircuitBreakerFailure: [now, failureCount]
    routeResp,          \* status of the last response sent to this caller
    routeCalls,         \* requests received
    routeOps,           \* breaker calls the request of this caller has made
    \* ---- NotificationStorage queues (Redis) and their workers
    nqReady,            \* lists queue:<type>:<priority>, head first
    nqScheduled,        \* sorted set scheduled:notifications: {[id, score]}
    nqMeta,             \* per payload id: the arguments of its enqueueNotification
    nqPushes,           \* the LPUSHes done so far, in order: [id, queue, by]
    nqPc,               \* per worker of processScheduledNotifications: position
    nqSnap,             \* per worker: entries of its ZRANGEBYSCORE still to move
    nqPopped,           \* what the last dequeueNotification found and returned
    nqDrain,            \* the running process<Channel>Queue: [type, idx, from]
    nqSent,             \* payloads handed to sendEmail/sendSms/sendPush, in order
    nqTaken,            \* what the dequeueNotification calls have returned, in order
    \* ---- NotificationService.sendEmail / sendSms / sendPush
    nsLimit,            \* config.rateLimit: per channel, notifications per minute
    nsPc,               \* per caller of send<Channel>: position
    nsData,             \* per caller: the DTO being sent: [type, priority, scheduledAt, entry]
                        \* and the time of the call
    nsResult,           \* per caller: what its last send returned
    nsHistory,          \* saveNotificationHistory rows, in order: [type, status, error, entry];
                        \* a row whose error is not "rate_limit" follows a provider.send call
    nsHandled,          \* entries of nqSent whose send<Channel> has been entered
    nsSends,            \* sends requested over HTTP so far
    \* ---- WebhookService.broadcastEvent
    bcRows,             \* table webhook_configs: per target, its row
    bcPc,               \* "idle" | "running" | "done" | "threw"
    bcTarget,           \* per target: its sendWebhook call: [pc, attempt, maxRetries, last, promise]
    bcCount             \* broadcasts made so far

whVars == <<whCfg, whPc, whAttempt, whMaxRetries, webhookDeliveries, whSleeps, whOutcome>>
apiVars == <<apiCfg, apiReq, apiPc, apiAttempt, apiMaxRetries, apiRetryDelay,
             integrationRequests, apiSleeps, apiOutcome>>
rlVars == <<rlStore, rlPc, rlLocal, rlResults>>
swVars == <<swStore, swResults>>
cbVars == <<cb, ticks, cbOps, cbCheck, cbStreak>>
routeVars == <<routePc, routeCheck, routeLocal, routeResp, routeCalls, routeOps>>
nqVars == <<nqReady, nqScheduled, nqMeta, nqPushes, nqPc, nqSnap, nqPopped, nqDrain, nqSent,
           nqTaken>>
nsVars == <<nsLimit, nsPc, nsData, nsResult, nsHistory, nsHandled, nsSends>>
bcVars == <<bcRows, bcPc, bcTarget, bcCount>>
vars == <<whVars, apiVars, now, rlVars, swVars, cbVars, routeVars, nqVars, nsVars, bcVars>>

\* concurrent requests handled by the integration service
Callers == {"c1", "c2"}

----------------------------------------------------------------------------
(* WebhookService *)

\* the ways one HTTP exchange can end (fetch resolves, rejects, or is aborted)
FetchOutcomes == {"2xx", "5xx", "network", "timeout"}

\* rows of webhook_configs a delivery can find; retryAttempts as the schema stores it
WebhookConfigs ==
    [found : {TRUE}, isActive : BOOLEAN, subscribed : BOOLEAN,
     retryAttempts : 0..MaxRetryAttempts]
    \cup {[found |-> FALSE, isActive |-> FALSE, subscribed |-> FALSE, retryAttempts |-> 0]}

\* deliverWebhook: response.ok on a response, success false on a thrown fetch
DeliverWebhook(kind) ==
    [success |-> (kind = "2xx"),
     error   |-> IF kind \in {"network", "timeout"} THEN kind ELSE "none",
     kind    |-> kind]

\* webhook.ts:127
WebhookMaxRetries(cfg) == JsOr(cfg.retryAttempts, WebhookFallbackRetries)

\* webhook.ts:154
WebhookDelay(attempt) == Pow2(attempt) * WebhookBaseDelay

WhInit ==
    /\ whCfg = [found |-> FALSE, isActive |-> FALSE, subscribed |-> FALSE, retryAttempts |-> 0]
    /\ whPc = "idle"
    /\ whAttempt = 0
    /\ whMaxRetries = 0
    /\ webhookDeliveries = <<>>
    /\ whSleeps = <<>>
    /\ whOutcome = "none"

\* sendWebhook lines 111-128: load the target, reject, resolve maxRetries
SendWebhookStart(cfg) ==
    /\ whPc = "idle"
    /\ \A c \in Callers : apiPc[c] = "idle"
    /\ whCfg' = cfg
    /\ IF ~cfg.found THEN
          /\ whPc' = "done" /\ whOutcome' = "not_found"
          /\ UNCHANGED <<whMaxRetries>>
       ELSE IF ~cfg.isActive THEN
          /\ whPc' = "done" /\ whOutcome' = "inactive"
          /\ UNCHANGED <<whMaxRetries>>
       ELSE IF ~cfg.subscribed THEN
          /\ whPc' = "done" /\ whOutcome' = "skipped"
          /\ UNCHANGED <<whMaxRetries>>
       ELSE
          /\ whPc' = "attempt" /\ whOutcome' = "none"
          /\ whMaxRetries' = WebhookMaxRetries(cfg)
    /\ UNCHANGED <<whAttempt, webhookDeliveries, whSleeps>>
    /\ UNCHANGED <<apiVars, now, rlVars, swVars, cbVars, routeVars, nqVars, nsVars, bcVars>>

\* one iteration of the loop, lines 130-157, and the throw of lines 159-161
SendWebhookAttempt(kind) ==
    /\ whPc = "attempt"
    /\ whAttempt <= whMaxRetries
    /\ LET result == DeliverWebhook(kind) IN
       /\ webhookDeliveries' = Append(webhookDeliveries,
              [retryCount |-> whAttempt, success |-> result.success,
               error |-> result.error, kind |-> kind])
       /\ IF result.success THEN
             /\ whPc' = "done" /\ whOutcome' = "delivered"
             /\ UNCHANGED <<whSleeps, whAttempt>>
          ELSE IF whAttempt < whMaxRetries THEN
             /\ whPc' = "sleep"
             /\ whSleeps' = Append(whSleeps,
                    [before |-> whAttempt + 1, ms |-> WebhookDelay(whAttempt)])
             /\ UNCHANGED <<whOutcome, whAttempt>>
          ELSE
             /\ whPc' = "done" /\ whOutcome' = "failed"
             /\ whAttempt' = whAttempt + 1
             /\ UNCHANGED <<whSleeps>>
    /\ UNCHANGED <<whCfg, whMaxRetries>>
    /\ UNCHANGED <<apiVars, now, rlVars, swVars, cbVars, routeVars, nqVars, nsVars, bcVars>>

\* the delay of line 155 has elapsed: attempt++ and the next iteration
SendWebhookWake ==
    /\ whPc = "sleep"
    /\ whPc' = "attempt"
    /\ whAttempt' = whAttempt + 1
    /\ UNCHANGED <<whCfg, whMaxRetries, webhookDeliveries, whSleeps, whOutcome>>
    /\ UNCHANGED <<apiVars, now, rlVars, swVars, cbVars, routeVars, nqVars, nsVars, bcVars>>

----------------------------------------------------------------------------
(* ApiClientService *)

ApiPcs == {"idle", "attempt", "sleep", "returned", "threw"}

\* rows of external_api_configs a call can find (both retry columns are nullable)
ApiConfigs ==
    [found : {TRUE}, isActive : BOOLEAN,
     retryAttempts : {Null} \cup 0..MaxRetryAttempts,
     retryDelay : {Null, 100}]
    \cup {[found |-> FALSE, isActive |-> FALSE, retryAttempts |-> Null, retryDelay |-> Null]}

\* RequestOptions of makeApiCall (apiClient.ts:7-12), the retry fields
RequestOptionsSet == [retryAttempts : {Null, 0, 1}, retryDelay : {Null, 50}]

NoOptions == [retryAttempts |-> Null, retryDelay |-> Null]

\* ApiRequestDto: endpoint is any string, so new URL(endpoint, baseUrl) may throw
ApiRequests == [badUrl : BOOLEAN]

NoApiConfig == [found |-> FALSE, isActive |-> FALSE, retryAttempts |-> Null, retryDelay |-> Null]

\* apiClient.ts:142
ApiMaxRetries(options, cfg) ==
    JsNullish(JsNullish(options.retryAttempts, cfg.retryAttempts), ConfigRetryAttempts)

\* apiClient.ts:143
ApiRetryDelay(options, cfg) ==
    JsNullish(JsNullish(options.retryDelay, cfg.retryDelay), ConfigRetryDelay)

\* linear instead of exponential backoff
ApiDelayLinear(retryDelay, attempt) == retryDelay * (attempt + 1)

\* apiClient.ts:154
ApiDelay(retryDelay, attempt) == retryDelay * Pow2(attempt)

\* makeRequest whose catch block rethrows without the insert
MakeRequestNoFailureLog(req, kind) ==
    IF req.badUrl THEN [throws |-> TRUE, logged |-> FALSE, status |-> "none", error |-> "invalid_url"]
    ELSE IF kind \in {"2xx", "5xx"}
         THEN [throws |-> FALSE, logged |-> TRUE, status |-> kind, error |-> "none"]
         ELSE [throws |-> TRUE, logged |-> FALSE, status |-> "none", error |-> kind]

\* makeRequest: what one execution does.  A response of any status is logged
\* and returned (lines 69-105); a rejected fetch is logged and rethrown (lines
\* 107-123); an endpoint that new URL rejects throws at line 35 and again at
\* line 115, before the insert of the catch block has been issued.
MakeRequest(req, kind) ==
    IF req.badUrl THEN [throws |-> TRUE, logged |-> FALSE, status |-> "none", error |-> "invalid_url"]
    ELSE IF kind \in {"2xx", "5xx"}
         THEN [throws |-> FALSE, logged |-> TRUE, status |-> kind, error |-> "none"]
         ELSE [throws |-> TRUE, logged |-> TRUE, status |-> "none", error |-> kind]

ApiInit ==
    /\ apiCfg = [c \in Callers |-> NoApiConfig]
    /\ apiReq = [c \in Callers |-> [badUrl |-> FALSE]]
    /\ apiPc = [c \in Callers |-> "idle"]
    /\ apiAttempt = [c \in Callers |-> 0]
    /\ apiMaxRetries = [c \in Callers |-> 0]
    /\ apiRetryDelay = [c \in Callers |-> 0]
    /\ integrationRequests = [c \in Callers |-> <<>>]
    /\ apiSleeps = [c \in Callers |-> <<>>]
    /\ apiOutcome = [c \in Callers |-> "none"]

\* makeApiCall lines 127-145: load the target, reject, resolve the retry policy
MakeApiCallStart(c, cfg, req, options) ==
    /\ apiCfg' = [apiCfg EXCEPT ![c] = cfg]
    /\ apiReq' = [apiReq EXCEPT ![c] = req]
    /\ apiAttempt' = [apiAttempt EXCEPT ![c] = 0]
    /\ integrationRequests' = [integrationRequests EXCEPT ![c] = <<>>]
    /\ apiSleeps' = [apiSleeps EXCEPT ![c] = <<>>]
    /\ IF ~cfg.found THEN
          /\ apiPc' = [apiPc EXCEPT ![c] = "threw"]
          /\ apiOutcome' = [apiOutcome EXCEPT ![c] = "not_found"]
          /\ UNCHANGED <<apiMaxRetries, apiRetryDelay>>
       ELSE IF ~cfg.isActive THEN
          /\ apiPc' = [apiPc EXCEPT ![c] = "threw"]
          /\ apiOutcome' = [apiOutcome EXCEPT ![c] = "inactive"]
          /\ UNCHANGED <<apiMaxRetries, apiRetryDelay>>
       ELSE
          /\ apiPc' = [apiPc EXCEPT ![c] = "attempt"]
          /\ apiOutcome' = [apiOutcome EXCEPT ![c] = "none"]
          /\ apiMaxRetries' = [apiMaxRetries EXCEPT ![c] = ApiMaxRetries(options, cfg)]
          /\ apiRetryDelay' = [apiRetryDelay EXCEPT ![c] = ApiRetryDelay(options, cfg)]

\* a caller inside the service invokes makeApiCall with its own options
DirectApiCall(c, cfg, req, options) ==
    /\ apiPc[c] = "idle"
    /\ whPc = "idle"
    /\ MakeApiCallStart(c, cfg, req, options)
    /\ UNCHANGED <<whVars, now, rlVars, swVars, cbVars, routeVars, nqVars, nsVars, bcVars>>

\* one iteration of the loop, lines 147-157, and the throw of line 159
MakeApiCallAttempt(c, kind) ==
    /\ apiPc[c] = "attempt"
    /\ apiAttempt[c] <= apiMaxRetries[c]
    /\ LET r == MakeRequest(apiReq[c], kind) IN
       /\ integrationRequests' = [integrationRequests EXCEPT ![c] =
              IF r.logged
              THEN Append(@, [retryCount |-> 0, status |-> r.status, error |-> r.error])
              ELSE @]
       /\ IF ~r.throws THEN
             /\ apiPc' = [apiPc EXCEPT ![c] = "returned"]
             /\ apiOutcome' = [apiOutcome EXCEPT ![c] = "returned"]
             /\ UNCHANGED <<apiSleeps, apiAttempt>>
          ELSE IF apiAttempt[c] < apiMaxRetries[c] THEN
             /\ apiPc' = [apiPc EXCEPT ![c] = "sleep"]
             /\ apiSleeps' = [apiSleeps EXCEPT ![c] = Append(@,
                    [before |-> apiAttempt[c] + 1,
                     ms |-> ApiDelay(apiRetryDelay[c], apiAttempt[c])])]
             /\ UNCHANGED <<apiOutcome, apiAttempt>>
          ELSE
             /\ apiPc' = [apiPc EXCEPT ![c] = "threw"]
             /\ apiOutcome' = [apiOutcome EXCEPT ![c] = "exhausted"]
             /\ apiAttempt' = [apiAttempt EXCEPT ![c] = @ + 1]
             /\ UNCHANGED <<apiSleeps>>
    /\ UNCHANGED <<apiCfg, apiReq, apiMaxRetries, apiRetryDelay>>

\* the delay of line 154 has elapsed: attempt++ and the next iteration
MakeApiCallWake(c) ==
    /\ apiPc[c] = "sleep"
    /\ apiPc' = [apiPc EXCEPT ![c] = "attempt"]
    /\ apiAttempt' = [apiAttempt EXCEPT ![c] = @ + 1]
    /\ UNCHANGED <<apiCfg, apiReq, apiMaxRetries, apiRetryDelay, integrationRequests,
                   apiSleeps, apiOutcome>>

----------------------------------------------------------------------------
(* RateLimitService: fixed window *)

\* the TTL rounded down instead of up
ExpireSecondsFloor(windowMs) == windowMs \div 1000

\* Math.ceil(windowMs / 1000), the TTL in seconds handed to EXPIRE
ExpireSeconds(windowMs) == (windowMs + 999) \div 1000

\* part_002:51
WindowStart(t, windowMs) == (t \div windowMs) * windowMs

\* a counter that stops counting once the limit is reached
IncrUnlessFull(store, key) ==
    IF key \in DOMAIN store
    THEN (IF store[key].count >= MaxRequests THEN store[key].count ELSE store[key].count + 1)
    ELSE 1

\* INCR on a key: a missing key counts as 0
Incr(store, key) == IF key \in DOMAIN store THEN store[key].count + 1 ELSE 1

\* the comparison off by one
RateLimitAllowedStrict(currentRequests, maxRequests) == currentRequests < maxRequests

\* part_002:68
RateLimitAllowed(currentRequests, maxRequests) == currentRequests <= maxRequests

\* part_002:67
RateLimitRemaining(currentRequests, maxRequests) ==
    IF maxRequests - currentRequests > 0 THEN maxRequests - currentRequests ELSE 0

\* the keys of a store that Redis has not expired at time t
Alive(store, t) == {k \in DOMAIN store : store[k].expireAt > t}

LimiterInit ==
    /\ rlStore = <<>>
    /\ rlPc = [c \in Callers |-> "idle"]
    /\ rlLocal = [c \in Callers |-> [now |-> 0, key |-> 0, keys |-> {}]]
    /\ rlResults = <<>>
    /\ swStore = [scores |-> <<>>, expireAt |-> Null]
    /\ swResults = <<>>

\* checkRateLimit lines 48-60: read the clock, name the window's key, queue the MULTI
CheckRateLimitBegin(c) ==
    /\ rlPc[c] = "idle"
    /\ Len(rlResults) + Cardinality({d \in Callers : rlPc[d] = "exec"}) < MaxCalls
    /\ rlPc' = [rlPc EXCEPT ![c] = "exec"]
    /\ rlLocal' = [rlLocal EXCEPT ![c] = [now |-> now, key |-> WindowStart(now, WindowMs), keys |-> {}]]
    /\ UNCHANGED <<rlStore, rlResults, now, swVars, whVars, apiVars, cbVars, routeVars, nqVars, nsVars, bcVars>>

\* checkRateLimit lines 62-75: Redis runs INCR, EXPIRE, TTL as one transaction
CheckRateLimitExec(c) ==
    /\ rlPc[c] = "exec"
    /\ LET key == rlLocal[c].key
           currentRequests == Incr(rlStore, key)
           seconds == ExpireSeconds(WindowMs)
           ttl == seconds
           windowEnd == key + WindowMs
       IN
       /\ rlStore' = [k \in DOMAIN rlStore \cup {key} |->
                        IF k = key
                        THEN [count |-> currentRequests, expireAt |-> now + seconds * 1000]
                        ELSE rlStore[k]]
       /\ rlResults' = Append(rlResults,
              [key |-> key,
               begun |-> rlLocal[c].now,
               at |-> now,
               allowed |-> RateLimitAllowed(currentRequests, MaxRequests),
               remaining |-> RateLimitRemaining(currentRequests, MaxRequests),
               resetTime |-> IF ttl > 0 THEN rlLocal[c].now + ttl * 1000 ELSE windowEnd,
               totalRequests |-> currentRequests])
    /\ rlPc' = [rlPc EXCEPT ![c] = "idle"]
    /\ UNCHANGED <<rlLocal, now, swVars, whVars, apiVars, cbVars, routeVars, nqVars, nsVars, bcVars>>

\* resetRateLimit lines 81-82: KEYS rate_limit:<identifier>:* lists the identifier's keys
ResetRateLimitKeys(c) ==
    /\ rlPc[c] = "idle"
    /\ rlPc' = [rlPc EXCEPT ![c] = "del"]
    /\ rlLocal' = [rlLocal EXCEPT ![c] = [now |-> 0, key |-> 0, keys |-> DOMAIN rlStore]]
    /\ UNCHANGED <<rlStore, rlResults, now, swVars, whVars, apiVars, cbVars, routeVars, nqVars, nsVars, bcVars>>

\* resetRateLimit lines 84-86: DEL of the listed keys, when there are any
ResetRateLimitDel(c) ==
    /\ rlPc[c] = "del"
    /\ rlStore' = [k \in DOMAIN rlStore \ rlLocal[c].keys |-> rlStore[k]]
    /\ rlPc' = [rlPc EXCEPT ![c] = "idle"]
    /\ UNCHANGED <<rlLocal, rlResults, now, swVars, whVars, apiVars, cbVars, routeVars, nqVars, nsVars, bcVars>>

\* GET of a counter: a missing key reads as '0' (part_002:228)
StoredRequests(store, key) == IF key \in DOMAIN store THEN store[key].count ELSE 0

\* part_002:220-222: the sum of the counters that MGET found
RECURSIVE SumOfCounts(_, _)
SumOfCounts(store, keys) ==
    IF keys = {} THEN 0
    ELSE LET k == CHOOSE x \in keys : TRUE
         IN store[k].count + SumOfCounts(store, keys \ {k})

\* getRateLimitStats lines 201-238: GET and TTL of the current window's key and MGET of
\* the earlier windows' keys; the reads write nothing to Redis
GetRateLimitStats(c) ==
    /\ rlPc[c] = "idle"
    /\ LET key == WindowStart(now, WindowMs)
           requests == StoredRequests(rlStore, key)
       IN rlResults' = Append(rlResults,
              [key |-> key,
               at |-> now,
               requests |-> requests,
               remaining |-> RateLimitRemaining(requests, MaxRequests),
               resetTime |-> IF key \in DOMAIN rlStore /\ rlStore[key].expireAt - now >= 1000
                             THEN now + ((rlStore[key].expireAt - now) \div 1000) * 1000
                             ELSE key + WindowMs,
               totalRequestsLast24h |-> SumOfCounts(rlStore, {k \in DOMAIN rlStore : k <= key})])
    /\ UNCHANGED <<rlStore, rlPc, rlLocal, now, swVars, whVars, apiVars, cbVars, routeVars, nqVars, nsVars, bcVars>>

\* time passes; Redis drops the keys whose TTL has run out
LimiterTick ==
    /\ now + LimiterTickMs <= MaxClock
    /\ now' = now + LimiterTickMs
    /\ rlStore' = [k \in Alive(rlStore, now') |-> rlStore[k]]
    /\ swStore' = IF swStore.expireAt # Null /\ swStore.expireAt <= now'
                  THEN [scores |-> <<>>, expireAt |-> Null]
                  ELSE swStore
    /\ UNCHANGED <<rlPc, rlLocal, rlResults, swResults, whVars, apiVars, cbVars, routeVars, nqVars, nsVars, bcVars>>

----------------------------------------------------------------------------
(* RateLimitService: sliding window *)

\* ZREMRANGEBYSCORE key min max: drops the members with min <= score <= max
ZRemRangeByScore(scores, min, max) ==
    SelectSeq(scores, LAMBDA x : ~(min <= x /\ x <= max))

\* part_002:117
SlidingAllowed(currentRequests, maxRequests) == currentRequests < maxRequests

\* part_002:116
SlidingRemaining(currentRequests, maxRequests) ==
    IF maxRequests - currentRequests - 1 > 0 THEN maxRequests - currentRequests - 1 ELSE 0

\* checkSlidingWindowRateLimit, lines 90-126: the MULTI of ZREMRANGEBYSCORE,
\* ZCARD, ZADD and EXPIRE runs as one transaction at the time the clock was read
CheckSlidingWindowRateLimit ==
    /\ Len(swResults) < MaxCalls
    /\ LET windowStart == now - WindowMs
           kept == ZRemRangeByScore(swStore.scores, 0, windowStart)
           currentRequests == Len(kept)
       IN
       /\ swStore' = [scores |-> Append(kept, now),
                      expireAt |-> now + ExpireSeconds(WindowMs) * 1000]
       /\ swResults' = Append(swResults,
              [at |-> now,
               allowed |-> SlidingAllowed(currentRequests, MaxRequests),
               remaining |-> SlidingRemaining(currentRequests, MaxRequests),
               resetTime |-> now + WindowMs,
               totalRequests |-> currentRequests + 1])
    /\ UNCHANGED <<now, rlVars, whVars, apiVars, cbVars, routeVars, nqVars, nsVars, bcVars>>

----------------------------------------------------------------------------
(* RateLimitService: circuit breaker *)

\* a hash that does not exist
NoHash == [state |-> "none", failureCount |-> Null, lastFailureTime |-> Null, expireAt |-> Null]

\* HSET key state <s>
HSetState(h, s) == [h EXCEPT !.state = s]

\* HSET key {state: 'closed', failureCount: '0'}, part_002:162-165
HSetClosed(h) == [h EXCEPT !.state = "closed", !.failureCount = 0]

\* HDEL key lastFailureTime
HDelLastFailureTime(h) == [h EXCEPT !.lastFailureTime = Null]

\* HINCRBY key failureCount 2
HIncrByFailureCountTwice(h) ==
    [h EXCEPT !.failureCount = IF h.failureCount = Null THEN 2 ELSE h.failureCount + 2]

\* HINCRBY key failureCount 1: a missing field counts as 0
HIncrByFailureCount(h) ==
    [h EXCEPT !.failureCount = IF h.failureCount = Null THEN 1 ELSE h.failureCount + 1]

\* HSET key lastFailureTime <t>
HSetLastFailureTime(h, t) == [h EXCEPT !.lastFailureTime = t]

\* EXPIRE key seconds at server time t: no effect on a key that does not exist
ExpireHash(h, seconds, t) ==
    IF h.state = "none" /\ h.failureCount = Null /\ h.lastFailureTime = Null
    THEN h
    ELSE [h EXCEPT !.expireAt = t + seconds * 1000]

\* the hash as Redis holds it at time t
HashAt(h, t) == IF h.expireAt # Null /\ h.expireAt <= t THEN NoHash ELSE h

\* part_002:143-145, the defaults checkCircuitBreaker applies to HGETALL's reply
BreakerView(h) ==
    [state |-> IF h.state = "none" THEN "closed" ELSE h.state,
     failureCount |-> IF h.failureCount = Null THEN 0 ELSE h.failureCount,
     lastFailureTime |-> h.lastFailureTime]

\* part_002:150, `state === 'open' && lastFailureTime && (now - lastFailureTime) > recoveryTimeout`
ShouldHalfOpen(view, t, recoveryTimeout) ==
    /\ view.state = "open"
    /\ view.lastFailureTime # Null /\ view.lastFailureTime # 0
    /\ (t - view.lastFailureTime) > recoveryTimeout

\* the threshold compared with > instead of >=
ShouldOpenStrict(failureCount, failureThreshold) == failureCount > failureThreshold

\* part_002:181
ShouldOpen(failureCount, failureThreshold) == failureCount >= failureThreshold

\* checkCircuitBreaker as one step: the hash after it, and what it returns
CheckedHash(h, t, recoveryTimeout) ==
    IF ShouldHalfOpen(BreakerView(h), t, recoveryTimeout) THEN HSetState(h, "half-open") ELSE h

CheckResult(h, t, recoveryTimeout) ==
    IF ShouldHalfOpen(BreakerView(h), t, recoveryTimeout)
    THEN [BreakerView(h) EXCEPT !.state = "half-open"]
    ELSE BreakerView(h)

\* recordCircuitBreakerSuccess as one step
SuccessHash(h) == HDelLastFailureTime(HSetClosed(h))

\* recordCircuitBreakerFailure as one step
FailureHash(h, t, failureThreshold) ==
    LET h1 == HIncrByFailureCount(h)
        h2 == HSetLastFailureTime(h1, t)
        h3 == IF ShouldOpen(h1.failureCount, failureThreshold) THEN HSetState(h2, "open") ELSE h2
    IN ExpireHash(h3, BreakerTtlSeconds, t)

\* bookkeeping of the calls made: no failure since the last success
NoStreak == [n |-> 0, lastAt |-> Null, lapsed |-> FALSE, recovered |-> FALSE]

BreakerInit ==
    /\ cb = NoHash
    /\ ticks = 0
    /\ cbOps = 0
    /\ cbCheck = [state |-> "none", failureCount |-> 0, lastFailureTime |-> Null, at |-> Null]
    /\ cbStreak = NoStreak

\* the steps the clock takes: 1 ms, the recovery timeout, the lifetime of the key
TickSizes == {1, RecoveryTimeout, BreakerTtlSeconds * 1000}

\* time passes; Redis drops the breaker key when its TTL has run out
BreakerTick(dt) ==
    /\ ticks < MaxTicks
    /\ ticks' = ticks + 1
    /\ now' = now + dt
    /\ cb' = HashAt(cb, now')
    /\ cbStreak' = IF cb # NoHash /\ HashAt(cb, now') = NoHash /\ cbStreak.n > 0
                   THEN [cbStreak EXCEPT !.lapsed = TRUE] ELSE cbStreak
    /\ cbCheck' = [cbCheck EXCEPT !.state = "none"]
    /\ UNCHANGED <<cbOps, whVars, apiVars, rlVars, swVars, routeVars, nqVars, nsVars, bcVars>>

\* checkCircuitBreaker(serviceId, failureThreshold, recoveryTimeout), lines 129-156
CheckCircuitBreaker ==
    /\ cbOps < MaxBreakerOps
    /\ cbOps' = cbOps + 1
    /\ cb' = CheckedHash(cb, now, RecoveryTimeout)
    /\ cbCheck' = [state |-> CheckResult(cb, now, RecoveryTimeout).state,
                   failureCount |-> CheckResult(cb, now, RecoveryTimeout).failureCount,
                   lastFailureTime |-> CheckResult(cb, now, RecoveryTimeout).lastFailureTime,
                   at |-> now]
    /\ UNCHANGED <<now, ticks, cbStreak, whVars, apiVars, rlVars, swVars, routeVars, nqVars, nsVars, bcVars>>

\* recordCircuitBreakerSuccess(serviceId), lines 158-167
RecordCircuitBreakerSuccess ==
    /\ cbOps < MaxBreakerOps
    /\ cbOps' = cbOps + 1
    /\ cb' = SuccessHash(cb)
    /\ cbStreak' = [NoStreak EXCEPT !.recovered = (cb.state = "half-open")]
    /\ cbCheck' = [cbCheck EXCEPT !.state = "none"]
    /\ UNCHANGED <<now, ticks, whVars, apiVars, rlVars, swVars, routeVars, nqVars, nsVars, bcVars>>

\* recordCircuitBreakerFailure(serviceId, failureThreshold), lines 169-186
RecordCircuitBreakerFailure ==
    /\ cbOps < MaxBreakerOps
    /\ cbOps' = cbOps + 1
    /\ cb' = FailureHash(cb, now, FailureThreshold)
    /\ cbStreak' = [cbStreak EXCEPT !.n = @ + 1, !.lastAt = now, !.recovered = FALSE]
    /\ cbCheck' = [cbCheck EXCEPT !.state = "none"]
    /\ UNCHANGED <<now, ticks, whVars, apiVars, rlVars, swVars, routeVars, nqVars, nsVars, bcVars>>

----------------------------------------------------------------------------
(* POST /api-configs/:id/call *)

RoutePcs == {"idle", "check_hset", "call", "api", "success_hset", "success_hdel",
             "failure_hset_time", "failure_hset_open", "failure_expire"}

\* rows of external_api_configs the handler's target can be
RouteConfigs ==
    {cfg \in ApiConfigs : /\ cfg.found /\ cfg.retryDelay = Null
                          /\ cfg.retryAttempts \in (IF cfg.isActive THEN {0, 1} ELSE {Null})}
    \cup {NoApiConfig}

\* the breaker record after n failed calls made at time t
RECURSIVE FailuresRecorded(_, _)
FailuresRecorded(n, t) ==
    IF n = 0 THEN NoHash ELSE FailureHash(FailuresRecorded(n - 1, t), t, FailureThreshold)

NoRouteLocal == [now |-> Null, failureCount |-> Null]

\* calls of checkCircuitBreaker, recordCircuitBreakerSuccess and
\* recordCircuitBreakerFailure made for one request, and the executions of
\* makeRequest its makeApiCall has made
NoRouteOps == [checks |-> 0, successes |-> 0, failures |-> 0, attempts |-> 0]

\* the handler lets every request through
BreakerAdmitsAlways(state) == TRUE

\* integration.ts:155, `circuitBreaker.state === 'open'` answers 503
BreakerAdmits(state) == state # "open"

RouteInit ==
    /\ routePc = [c \in Callers |-> "idle"]
    /\ routeCheck = [c \in Callers |-> "none"]
    /\ routeLocal = [c \in Callers |-> NoRouteLocal]
    /\ routeResp = [c \in Callers |-> "none"]
    /\ routeCalls = 0
    /\ routeOps = [c \in Callers |-> NoRouteOps]

\* makeApiCall has returned or thrown into the handler: its locals are gone,
\* and the rows and delays of the finished call are no longer tracked
ApiLeave(c) ==
    /\ apiPc' = [apiPc EXCEPT ![c] = "idle"]
    /\ apiCfg' = [apiCfg EXCEPT ![c] = NoApiConfig]
    /\ apiReq' = [apiReq EXCEPT ![c] = [badUrl |-> FALSE]]
    /\ apiAttempt' = [apiAttempt EXCEPT ![c] = 0]
    /\ apiMaxRetries' = [apiMaxRetries EXCEPT ![c] = 0]
    /\ apiRetryDelay' = [apiRetryDelay EXCEPT ![c] = 0]
    /\ integrationRequests' = [integrationRequests EXCEPT ![c] = <<>>]
    /\ apiSleeps' = [apiSleeps EXCEPT ![c] = <<>>]
    /\ apiOutcome' = [apiOutcome EXCEPT ![c] = "none"]

\* what a fetch of the handler's call can do (a timeout is rejected like a
\* network error, apiClient.ts:107)
RouteOutcomes == {"2xx", "5xx", "network"}

\* the steps the clock takes while requests are served: past the recovery
\* timeout, past the lifetime of the key
RouteTickSizes == {RecoveryTimeout + 1, BreakerTtlSeconds * 1000}

\* time passes; Redis drops the breaker key when its TTL has run out
RouteTick(dt) ==
    /\ ticks < MaxRouteTicks
    /\ ticks' = ticks + 1
    /\ now' = now + dt
    /\ cb' = HashAt(cb, now')
    /\ UNCHANGED <<cbOps, cbCheck, cbStreak, whVars, apiVars, rlVars, swVars, routeVars, nqVars, nsVars, bcVars>>

\* integration.ts:149-161 with part_002:141-147: HGETALL, Date.now(), the
\* decision; a breaker read as open is answered 503 at line 156
RouteCheckRead(c) ==
    /\ routePc[c] = "idle"
    /\ routeCalls < MaxRouteCalls
    /\ routeCalls' = routeCalls + 1
    /\ routeOps' = [routeOps EXCEPT ![c] = [NoRouteOps EXCEPT !.checks = 1]]
    /\ IF ShouldHalfOpen(BreakerView(cb), now, RecoveryTimeout) THEN
          /\ routePc' = [routePc EXCEPT ![c] = "check_hset"]
          /\ routeCheck' = [routeCheck EXCEPT ![c] = "none"]
          /\ routeResp' = [routeResp EXCEPT ![c] = "none"]
       ELSE IF BreakerAdmits(BreakerView(cb).state) THEN
          /\ routePc' = [routePc EXCEPT ![c] = "call"]
          /\ routeCheck' = [routeCheck EXCEPT ![c] = BreakerView(cb).state]
          /\ routeResp' = [routeResp EXCEPT ![c] = "none"]
       ELSE
          /\ routePc' = [routePc EXCEPT ![c] = "idle"]
          /\ routeCheck' = [routeCheck EXCEPT ![c] = BreakerView(cb).state]
          /\ routeResp' = [routeResp EXCEPT ![c] = "503"]
    /\ UNCHANGED <<routeLocal, whVars, apiVars, now, rlVars, swVars, cbVars, nqVars, nsVars, bcVars>>

\* part_002:151-152: HSET state half-open, the check returns half-open and the
\* handler goes on to the call
RouteCheckHSet(c) ==
    /\ routePc[c] = "check_hset"
    /\ cb' = HSetState(cb, "half-open")
    /\ routeCheck' = [routeCheck EXCEPT ![c] = "half-open"]
    /\ routePc' = [routePc EXCEPT ![c] = "call"]
    /\ UNCHANGED <<routeLocal, routeResp, routeCalls, routeOps, ticks, cbOps, cbCheck, cbStreak,
                   whVars, apiVars, now, rlVars, swVars, nqVars, nsVars, bcVars>>

\* integration.ts:164: makeApiCall(id, validatedRequest), no options
RouteCall(c, cfg, req) ==
    /\ routePc[c] = "call"
    /\ MakeApiCallStart(c, cfg, req, NoOptions)
    /\ routePc' = [routePc EXCEPT ![c] = "api"]
    /\ UNCHANGED <<routeCheck, routeLocal, routeResp, routeCalls, routeOps,
                   whVars, now, rlVars, swVars, cbVars, nqVars, nsVars, bcVars>>

RouteApiAttempt(c, kind) ==
    /\ routePc[c] = "api"
    /\ MakeApiCallAttempt(c, kind)
    /\ routeOps' = [routeOps EXCEPT ![c].attempts = @ + 1]
    /\ UNCHANGED <<routePc, routeCheck, routeLocal, routeResp, routeCalls,
                   whVars, now, rlVars, swVars, cbVars, nqVars, nsVars, bcVars>>

RouteApiWake(c) ==
    /\ routePc[c] = "api"
    /\ MakeApiCallWake(c)
    /\ UNCHANGED <<whVars, now, rlVars, swVars, cbVars, routeVars, nqVars, nsVars, bcVars>>

\* integration.ts:167 with part_002:162-165: HSET {state closed, failureCount 0}
RouteSuccessHSet(c) ==
    /\ routePc[c] = "api"
    /\ apiPc[c] = "returned"
    /\ ApiLeave(c)
    /\ cb' = HSetClosed(cb)
    /\ routeOps' = [routeOps EXCEPT ![c].successes = @ + 1]
    /\ routePc' = [routePc EXCEPT ![c] = "success_hdel"]
    /\ UNCHANGED <<routeCheck, routeLocal, routeResp, routeCalls, ticks, cbOps, cbCheck,
                   cbStreak, whVars, now, rlVars, swVars, nqVars, nsVars, bcVars>>

\* part_002:166: HDEL lastFailureTime, then the 200 of integration.ts:169-178
RouteSuccessHDel(c) ==
    /\ routePc[c] = "success_hdel"
    /\ cb' = HDelLastFailureTime(cb)
    /\ routePc' = [routePc EXCEPT ![c] = "idle"]
    /\ routeCheck' = [routeCheck EXCEPT ![c] = "none"]
    /\ routeResp' = [routeResp EXCEPT ![c] = "200"]
    /\ UNCHANGED <<routeLocal, routeCalls, routeOps, ticks, cbOps, cbCheck, cbStreak,
                   whVars, apiVars, now, rlVars, swVars, nqVars, nsVars, bcVars>>

\* integration.ts:181 with part_002:176-178: Date.now(), HINCRBY failureCount 1
RouteFailureHIncrBy(c) ==
    /\ routePc[c] = "api"
    /\ apiPc[c] = "threw"
    /\ ApiLeave(c)
    /\ cb' = HIncrByFailureCount(cb)
    /\ routeOps' = [routeOps EXCEPT ![c].failures = @ + 1]
    /\ routeLocal' = [routeLocal EXCEPT ![c] =
           [now |-> now, failureCount |-> HIncrByFailureCount(cb).failureCount]]
    /\ routePc' = [routePc EXCEPT ![c] = "failure_hset_time"]
    /\ UNCHANGED <<routeCheck, routeResp, routeCalls, ticks, cbOps, cbCheck, cbStreak,
                   whVars, now, rlVars, swVars, nqVars, nsVars, bcVars>>

\* part_002:179-181: HSET lastFailureTime, then the threshold test
RouteFailureHSetTime(c) ==
    /\ routePc[c] = "failure_hset_time"
    /\ cb' = HSetLastFailureTime(cb, routeLocal[c].now)
    /\ routePc' = [routePc EXCEPT ![c] =
           IF ShouldOpen(routeLocal[c].failureCount, FailureThreshold)
           THEN "failure_hset_open" ELSE "failure_expire"]
    /\ UNCHANGED <<routeCheck, routeLocal, routeResp, routeCalls, routeOps, ticks, cbOps, cbCheck,
                   cbStreak, whVars, apiVars, now, rlVars, swVars, nqVars, nsVars, bcVars>>

\* part_002:182: HSET state open
RouteFailureHSetOpen(c) ==
    /\ routePc[c] = "failure_hset_open"
    /\ cb' = HSetState(cb, "open")
    /\ routePc' = [routePc EXCEPT ![c] = "failure_expire"]
    /\ UNCHANGED <<routeCheck, routeLocal, routeResp, routeCalls, routeOps, ticks, cbOps, cbCheck,
                   cbStreak, whVars, apiVars, now, rlVars, swVars, nqVars, nsVars, bcVars>>

\* part_002:185: EXPIRE 3600, then the rethrow and the 500 of integration.ts:182-190
RouteFailureExpire(c) ==
    /\ routePc[c] = "failure_expire"
    /\ cb' = ExpireHash(cb, BreakerTtlSeconds, now)
    /\ routeLocal' = [routeLocal EXCEPT ![c] = NoRouteLocal]
    /\ routePc' = [routePc EXCEPT ![c] = "idle"]
    /\ routeCheck' = [routeCheck EXCEPT ![c] = "none"]
    /\ routeResp' = [routeResp EXCEPT ![c] = "500"]
    /\ UNCHANGED <<routeCalls, routeOps, ticks, cbOps, cbCheck, cbStreak,
                   whVars, apiVars, now, rlVars, swVars, nqVars, nsVars, bcVars>>

----------------------------------------------------------------------------
(* NotificationStorage: ready queues, scheduled store, and their workers *)

Channels == {"email", "sms", "push"}

Priorities == {"high", "normal", "low"}

\* the ready queue of a channel and a priority, `queue:${type}:${priority}`
QueueName(type, priority) == <<type, priority>>

QueueNames == Channels \X Priorities

\* concurrent callers of processScheduledNotifications
Workers == {"w1", "w2"}

\* any scheduledAt at all sends the entry to the scheduled store
ScheduledAheadAlways(scheduledAt, t) == scheduledAt # Null

\* models/index.ts:244, `scheduledAt && scheduledAt > new Date()`
ScheduledAhead(scheduledAt, t) == scheduledAt # Null /\ scheduledAt > t

\* models/index.ts:285, `notification.type || 'email'`: the payload carries
\* the fields of the DTO, and no DTO has a type field (validation.ts:20-58)
PayloadType(meta) == "email"

\* models/index.ts:286, `notification.priority || 'normal'`: the DTO's
\* priority, which the schemas default to the one passed to enqueue
PayloadPriority(meta) == meta.priority

\* LPUSH: the new element becomes the head
LPush(list, x) == <<x>> \o list

\* RPOP takes the element LPUSH has just put
RPopHead(list) == [value |-> list[1], rest |-> Tail(list)]

\* RPOP: the tail leaves the list
RPop(list) == [value |-> list[Len(list)], rest |-> SubSeq(list, 1, Len(list) - 1)]

\* ZRANGEBYSCORE scheduled:notifications 0 max: members in score order, equal
\* scores in the order of the payload strings, which begin with a random id
ZRangeByScore(zset, max) ==
    LET due == {e \in zset : e.score <= max}
        n == Cardinality(due)
    IN {snap \in [1..n -> due] :
          /\ \A i, j \in 1..n : i # j => snap[i] # snap[j]
          /\ \A i, j \in 1..n : i < j => snap[i].score <= snap[j].score}

\* ZREM by member
ZRem(zset, id) == {e \in zset : e.id # id}

NoPop == [queue |-> <<"none", "none">>, id |-> 0, before |-> <<>>]

NoDrain == [type |-> "none", idx |-> 0, from |-> 0]

\* the order of models/notificationService.ts:317
DrainOrder == <<"high", "normal", "low">>

NqInit ==
    /\ nqReady = [q \in QueueNames |-> <<>>]
    /\ nqScheduled = {}
    /\ nqMeta = <<>>
    /\ nqPushes = <<>>
    /\ nqPc = [w \in Workers |-> "idle"]
    /\ nqSnap = [w \in Workers |-> <<>>]
    /\ nqPopped = NoPop
    /\ nqDrain = NoDrain
    /\ nqSent = <<>>
    /\ nqTaken = <<>>

\* enqueueNotification(type, notification, priority, scheduledAt), lines 228-254
EnqueueNotification(type, priority, scheduledAt) ==
    /\ Len(nqMeta) < MaxNotifications
    /\ LET id == Len(nqMeta) + 1 IN
       /\ nqMeta' = Append(nqMeta, [type |-> type, priority |-> priority,
                                    scheduledAt |-> scheduledAt])
       /\ IF ScheduledAhead(scheduledAt, now) THEN
             /\ nqScheduled' = nqScheduled \cup {[id |-> id, score |-> scheduledAt]}
             /\ UNCHANGED <<nqReady, nqPushes>>
          ELSE
             /\ nqReady' = [nqReady EXCEPT ![QueueName(type, priority)] = LPush(@, id)]
             /\ nqPushes' = Append(nqPushes, [id |-> id, queue |-> QueueName(type, priority),
                                              by |-> "enqueue"])
             /\ UNCHANGED nqScheduled
    /\ UNCHANGED <<nqPc, nqSnap, nqPopped, nqDrain, nqSent, nqTaken>>
    /\ UNCHANGED <<whVars, apiVars, now, rlVars, swVars, cbVars, routeVars, bcVars>>

\* enqueueNotification called on the storage by a client of its own
EnqueueCall(type, priority, scheduledAt) ==
    /\ EnqueueNotification(type, priority, scheduledAt)
    /\ UNCHANGED nsVars

\* processScheduledNotifications, lines 277-283: Date.now() and ZRANGEBYSCORE
ProcessScheduledRead(w) ==
    /\ nqPc[w] = "idle"
    /\ nqScheduled # {}
    /\ \E snap \in ZRangeByScore(nqScheduled, now) :
          /\ nqSnap' = [nqSnap EXCEPT ![w] = [i \in 1..Len(snap) |-> snap[i].id]]
          /\ nqPc' = [nqPc EXCEPT ![w] = IF Len(snap) = 0 THEN "idle" ELSE "lpush"]
    /\ UNCHANGED <<nqReady, nqScheduled, nqMeta, nqPushes, nqPopped, nqDrain, nqSent, nqTaken>>
    /\ UNCHANGED <<whVars, apiVars, now, rlVars, swVars, cbVars, routeVars, nsVars, bcVars>>

\* lines 284-289: LPUSH of the next payload onto the queue its fields name
ProcessScheduledLPush(w) ==
    /\ nqPc[w] = "lpush"
    /\ LET id == nqSnap[w][1]
           q == QueueName(PayloadType(nqMeta[id]), PayloadPriority(nqMeta[id]))
       IN /\ nqReady' = [nqReady EXCEPT ![q] = LPush(@, id)]
          /\ nqPushes' = Append(nqPushes, [id |-> id, queue |-> q, by |-> w])
    /\ nqPc' = [nqPc EXCEPT ![w] = "zrem"]
    /\ UNCHANGED <<nqScheduled, nqMeta, nqSnap, nqPopped, nqDrain, nqSent, nqTaken>>
    /\ UNCHANGED <<whVars, apiVars, now, rlVars, swVars, cbVars, routeVars, nsVars, bcVars>>

\* line 292: ZREM of that payload, then the next iteration
ProcessScheduledZRem(w) ==
    /\ nqPc[w] = "zrem"
    /\ nqScheduled' = ZRem(nqScheduled, nqSnap[w][1])
    /\ nqSnap' = [nqSnap EXCEPT ![w] = Tail(@)]
    /\ nqPc' = [nqPc EXCEPT ![w] = IF Len(nqSnap[w]) > 1 THEN "lpush" ELSE "idle"]
    /\ UNCHANGED <<nqReady, nqMeta, nqPushes, nqPopped, nqDrain, nqSent, nqTaken>>
    /\ UNCHANGED <<whVars, apiVars, now, rlVars, swVars, cbVars, routeVars, nsVars, bcVars>>

\* a dequeue that returns the entry and leaves it in the list
DequeueNotificationKeeps(type, priority) ==
    LET q == QueueName(type, priority) IN
    /\ nqPopped' = [queue |-> q, before |-> nqReady[q],
                    id |-> IF nqReady[q] = <<>> THEN 0 ELSE RPop(nqReady[q]).value]
    /\ nqTaken' = IF nqReady[q] = <<>> THEN nqTaken
                  ELSE Append(nqTaken, RPop(nqReady[q]).value)
    /\ nqReady' = nqReady

\* dequeueNotification(type, priority), lines 256-266: what RPOP does to the list
DequeueNotification(type, priority) ==
    LET q == QueueName(type, priority) IN
    /\ nqPopped' = [queue |-> q, before |-> nqReady[q],
                    id |-> IF nqReady[q] = <<>> THEN 0 ELSE RPop(nqReady[q]).value]
    /\ nqTaken' = IF nqReady[q] = <<>> THEN nqTaken
                  ELSE Append(nqTaken, RPop(nqReady[q]).value)
    /\ nqReady' = IF nqReady[q] = <<>> THEN nqReady
                  ELSE [nqReady EXCEPT ![q] = RPop(nqReady[q]).rest]

\* a consumer calls dequeueNotification on a partition
DequeueCall(type, priority) ==
    /\ DequeueNotification(type, priority)
    /\ UNCHANGED <<nqScheduled, nqMeta, nqPushes, nqPc, nqSnap, nqDrain, nqSent>>
    /\ UNCHANGED <<whVars, apiVars, now, rlVars, swVars, cbVars, routeVars, nsVars, bcVars>>

\* processEmailQueue / processSmsQueue / processPushQueue is called
ProcessQueueStart(type) ==
    /\ nqDrain = NoDrain
    /\ \E p \in Priorities : nqReady[QueueName(type, p)] # <<>>
    /\ nqDrain' = [type |-> type, idx |-> 1, from |-> Len(nqPushes)]
    /\ UNCHANGED <<nqReady, nqScheduled, nqMeta, nqPushes, nqPc, nqSnap, nqPopped, nqSent, nqTaken>>
    /\ UNCHANGED <<whVars, apiVars, now, rlVars, swVars, cbVars, routeVars, nsVars, bcVars>>

\* one iteration of the loop of notificationService.ts:319-324: dequeue from
\* the next priority and hand what was found to the channel's send
ProcessQueueStep ==
    /\ nqDrain # NoDrain
    /\ DequeueNotification(nqDrain.type, DrainOrder[nqDrain.idx])
    /\ nqSent' = IF nqPopped'.id = 0 THEN nqSent
                 ELSE Append(nqSent, [id |-> nqPopped'.id, queue |-> nqPopped'.queue])
    /\ nqDrain' = IF nqDrain.idx < Len(DrainOrder)
                  THEN [nqDrain EXCEPT !.idx = @ + 1] ELSE NoDrain
    /\ UNCHANGED <<nqScheduled, nqMeta, nqPushes, nqPc, nqSnap>>
    /\ UNCHANGED <<whVars, apiVars, now, rlVars, swVars, cbVars, routeVars, nsVars, bcVars>>

\* time passes
NqTick ==
    /\ now < Epoch + MaxNqTicks * NqStep
    /\ now' = now + NqStep
    /\ UNCHANGED <<whVars, apiVars, rlVars, swVars, cbVars, routeVars, nqVars, nsVars, bcVars>>

\* the scheduledAt a caller may pass: none, past, present, future
ScheduleTimes == {Null, now - NqStep, now, now + NqStep}

----------------------------------------------------------------------------
(* NotificationService: sendEmail / sendSms / sendPush, sends that name no  *)
(* template                                                                 *)

\* who calls send<Channel>: the HTTP routes (and processBatch, element by
\* element), and the loop of process<Channel>Queue
Senders == {"http", "drain"}

NoSend == [type |-> "none", priority |-> "none", scheduledAt |-> Null, entry |-> 0, at |-> 0]

\* config.rateLimit as the environment leaves it
DefaultLimits ==
    [c \in Channels |-> IF c = "email" THEN EmailPerMinute
                        ELSE IF c = "sms" THEN SmsPerMinute ELSE PushPerMinute]

\* config.rateLimit as EMAIL_RATE_LIMIT, SMS_RATE_LIMIT and PUSH_RATE_LIMIT
\* may set it
SmallLimits == {[c \in Channels |-> n] : n \in 1..MaxLimit}

NsInit ==
    /\ nsLimit = DefaultLimits
    /\ nsPc = [s \in Senders |-> "idle"]
    /\ nsData = [s \in Senders |-> NoSend]
    /\ nsResult = [s \in Senders |-> "none"]
    /\ nsHistory = <<>>
    /\ nsHandled = 0
    /\ nsSends = 0

\* any queue backlog passes for being under the limit
CheckRateLimitOpen(type) == TRUE

\* checkRateLimit, lines 22-32: LLEN of the channel's normal queue against
\* the channel's per-minute limit
CheckRateLimit(type) == Len(nqReady[QueueName(type, "normal")]) < nsLimit[type]

\* POST /email, /sms, /push (or one element of a batch) enters send<Channel>
SendStart(type, priority, scheduledAt) ==
    /\ nsPc["http"] = "idle"
    /\ nsSends < MaxSends
    /\ nsSends' = nsSends + 1
    /\ nsPc' = [nsPc EXCEPT !["http"] = "check"]
    /\ nsData' = [nsData EXCEPT !["http"] = [type |-> type, priority |-> priority,
                                              scheduledAt |-> scheduledAt, entry |-> 0,
                                              at |-> now]]
    /\ nsResult' = [nsResult EXCEPT !["http"] = "none"]
    /\ UNCHANGED <<nsLimit, nsHistory, nsHandled>>
    /\ UNCHANGED <<whVars, apiVars, now, rlVars, swVars, cbVars, routeVars, nqVars, bcVars>>

\* the loop of process<Channel>Queue enters send<Channel> with the payload it
\* has dequeued (notificationService.ts:322, 333, 344)
DrainSendStart ==
    /\ nsPc["drain"] = "idle"
    /\ nsHandled < Len(nqSent)
    /\ LET e == nqSent[nsHandled + 1] IN
       nsData' = [nsData EXCEPT !["drain"] =
                     [type |-> e.queue[1], priority |-> nqMeta[e.id].priority,
                      scheduledAt |-> nqMeta[e.id].scheduledAt, entry |-> e.id,
                      at |-> now]]
    /\ nsHandled' = nsHandled + 1
    /\ nsPc' = [nsPc EXCEPT !["drain"] = "check"]
    /\ nsResult' = [nsResult EXCEPT !["drain"] = "none"]
    /\ UNCHANGED <<nsLimit, nsHistory, nsSends>>
    /\ UNCHANGED <<whVars, apiVars, now, rlVars, swVars, cbVars, routeVars, nqVars, bcVars>>

\* lines 36-63: the rate-limit check; when it fails the catch block writes a
\* failed history row and returns; when it passes the scheduledAt test
\* follows in the same turn
SendCheck(s) ==
    /\ nsPc[s] = "check"
    /\ IF ~CheckRateLimit(nsData[s].type) THEN
          /\ nsHistory' = Append(nsHistory, [type |-> nsData[s].type, status |-> "failed",
                                             error |-> "rate_limit",
                                             entry |-> nsData[s].entry])
          /\ nsResult' = [nsResult EXCEPT ![s] = "denied"]
          /\ nsPc' = [nsPc EXCEPT ![s] = "idle"]
          /\ nsData' = [nsData EXCEPT ![s] = NoSend]
       ELSE
          /\ nsPc' = [nsPc EXCEPT ![s] =
                         IF nsData[s].scheduledAt # Null /\ nsData[s].scheduledAt > now
                         THEN "enqueue" ELSE "provider"]
          /\ UNCHANGED <<nsHistory, nsResult, nsData>>
    /\ UNCHANGED <<nsLimit, nsHandled, nsSends>>
    /\ UNCHANGED <<whVars, apiVars, now, rlVars, swVars, cbVars, routeVars, nqVars, bcVars>>

\* lines 60-61: enqueueNotification, then the "scheduled" result
SendEnqueue(s) ==
    /\ nsPc[s] = "enqueue"
    /\ EnqueueNotification(nsData[s].type, nsData[s].priority, nsData[s].scheduledAt)
    /\ nsResult' = [nsResult EXCEPT ![s] = "scheduled"]
    /\ nsPc' = [nsPc EXCEPT ![s] = "idle"]
    /\ nsData' = [nsData EXCEPT ![s] = NoSend]
    /\ UNCHANGED <<nsLimit, nsHistory, nsHandled, nsSends>>

\* lines 66-82: provider.send, which reports a failure in its result and does
\* not throw, then the history row and the result
SendProvider(s, ok) ==
    /\ nsPc[s] = "provider"
    /\ nsHistory' = Append(nsHistory, [type |-> nsData[s].type,
                                       status |-> IF ok THEN "sent" ELSE "failed",
                                       error |-> IF ok THEN "none" ELSE "provider",
                                       entry |-> nsData[s].entry])
    /\ nsResult' = [nsResult EXCEPT ![s] = IF ok THEN "sent" ELSE "failed"]
    /\ nsPc' = [nsPc EXCEPT ![s] = "idle"]
    /\ nsData' = [nsData EXCEPT ![s] = NoSend]
    /\ UNCHANGED <<nsLimit, nsHandled, nsSends>>
    /\ UNCHANGED <<whVars, apiVars, now, rlVars, swVars, cbVars, routeVars, nqVars, bcVars>>

----------------------------------------------------------------------------
(* WebhookService.broadcastEvent *)

\* the webhooks of the table
Targets == {"A", "B", "C"}

\* rows of webhook_configs while broadcasts are studied
BroadcastConfigs ==
    [found : {TRUE}, isActive : BOOLEAN, subscribed : BOOLEAN, retryAttempts : {1}]

NoDelivery == [pc |-> "none", attempt |-> 0, maxRetries |-> 0, last |-> "none",
               promise |-> "none"]

\* lines 165-170: the rows the select and the filter keep
Selected(row) == row.found /\ row.isActive /\ row.subscribed

\* line 171: `.catch(error => console.error(...))` on the promise of sendWebhook
CaughtPromise(p) == IF p = "rejected" THEN "fulfilled" ELSE p

\* line 175: Promise.allSettled over the promises of the started deliveries
AllSettled(ps) ==
    IF \A t \in DOMAIN ps : ps[t] \in {"none", "fulfilled", "rejected"}
    THEN "fulfilled" ELSE "pending"

BcInit ==
    /\ bcRows = [t \in Targets |-> [found |-> TRUE, isActive |-> FALSE,
                                     subscribed |-> FALSE, retryAttempts |-> 1]]
    /\ bcPc = "idle"
    /\ bcTarget = [t \in Targets |-> NoDelivery]
    /\ bcCount = 0

\* broadcastEvent lines 164-173: select, filter, and one sendWebhook call per
\* row kept, each running up to its first await
BroadcastEvent ==
    /\ bcPc \in {"idle", "done"}
    /\ bcCount < MaxBroadcasts
    /\ bcCount' = bcCount + 1
    /\ bcPc' = "running"
    /\ bcTarget' = [t \in Targets |->
                       IF Selected(bcRows[t])
                       THEN [NoDelivery EXCEPT !.pc = "load", !.promise = "pending"]
                       ELSE NoDelivery]
    /\ UNCHANGED bcRows
    /\ UNCHANGED <<whVars, apiVars, now, rlVars, swVars, cbVars, routeVars, nqVars, nsVars>>

\* deleteWebhookConfig, lines 52-54, called while a broadcast runs
DeleteWebhookConfig(t) ==
    /\ bcPc = "running"
    /\ bcRows[t].found
    /\ bcRows' = [bcRows EXCEPT ![t].found = FALSE]
    /\ UNCHANGED <<bcPc, bcTarget, bcCount>>
    /\ UNCHANGED <<whVars, apiVars, now, rlVars, swVars, cbVars, routeVars, nqVars, nsVars>>

\* sendWebhook lines 112-127 for target t: the row is read again
BroadcastLoad(t) ==
    /\ bcTarget[t].pc = "load"
    /\ bcTarget' = [bcTarget EXCEPT ![t] =
          IF ~bcRows[t].found \/ ~bcRows[t].isActive
          THEN [@ EXCEPT !.pc = "threw", !.promise = "rejected"]
          ELSE IF ~bcRows[t].subscribed
          THEN [@ EXCEPT !.pc = "returned", !.promise = "fulfilled"]
          ELSE [@ EXCEPT !.pc = "attempt", !.maxRetries = WebhookMaxRetries(bcRows[t])]]
    /\ UNCHANGED <<bcRows, bcPc, bcCount>>
    /\ UNCHANGED <<whVars, apiVars, now, rlVars, swVars, cbVars, routeVars, nqVars, nsVars>>

\* a broadcast that gives up on every delivery at the first one that throws
BroadcastAttemptFailFast(t, kind) ==
    /\ bcTarget[t].pc = "attempt"
    /\ LET d == bcTarget[t]
           result == DeliverWebhook(kind)
       IN bcTarget' =
            IF result.success
            THEN [bcTarget EXCEPT ![t] = [d EXCEPT !.pc = "returned", !.last = kind,
                                                   !.promise = "fulfilled"]]
            ELSE IF d.attempt < d.maxRetries
            THEN [bcTarget EXCEPT ![t] = [d EXCEPT !.pc = "sleep", !.last = kind]]
            ELSE [u \in Targets |->
                    IF u = t THEN [d EXCEPT !.pc = "threw", !.last = kind, !.promise = "rejected"]
                    ELSE IF bcTarget[u].promise = "pending"
                         THEN [bcTarget[u] EXCEPT !.pc = "threw", !.promise = "rejected"]
                         ELSE bcTarget[u]]
    /\ UNCHANGED <<bcRows, bcPc, bcCount>>
    /\ UNCHANGED <<whVars, apiVars, now, rlVars, swVars, cbVars, routeVars, nqVars, nsVars>>

\* one iteration of the loop of sendWebhook for target t, lines 130-161
BroadcastAttempt(t, kind) ==
    /\ bcTarget[t].pc = "attempt"
    /\ LET d == bcTarget[t]
           result == DeliverWebhook(kind)
       IN bcTarget' =
            IF result.success
            THEN [bcTarget EXCEPT ![t] = [d EXCEPT !.pc = "returned", !.last = kind,
                                                   !.promise = "fulfilled"]]
            ELSE IF d.attempt < d.maxRetries
            THEN [bcTarget EXCEPT ![t] = [d EXCEPT !.pc = "sleep", !.last = kind]]
            ELSE [bcTarget EXCEPT ![t] = [d EXCEPT !.pc = "threw", !.last = kind,
                                                   !.promise = "rejected"]]
    /\ UNCHANGED <<bcRows, bcPc, bcCount>>
    /\ UNCHANGED <<whVars, apiVars, now, rlVars, swVars, cbVars, routeVars, nqVars, nsVars>>

\* the delay of line 155 has elapsed for target t
BroadcastWake(t) ==
    /\ bcTarget[t].pc = "sleep"
    /\ bcTarget' = [bcTarget EXCEPT ![t].pc = "attempt", ![t].attempt = @ + 1]
    /\ UNCHANGED <<bcRows, bcPc, bcCount>>
    /\ UNCHANGED <<whVars, apiVars, now, rlVars, swVars, cbVars, routeVars, nqVars, nsVars>>

\* line 175: the await of Promise.allSettled is over
BroadcastReturn ==
    /\ bcPc = "running"
    /\ LET all == AllSettled([t \in Targets |-> CaughtPromise(bcTarget[t].promise)]) IN
       /\ all # "pending"
       /\ bcPc' = IF all = "fulfilled" THEN "done" ELSE "threw"
    /\ UNCHANGED <<bcRows, bcTarget, bcCount>>
    /\ UNCHANGED <<whVars, apiVars, now, rlVars, swVars, cbVars, routeVars, nqVars, nsVars>>

----------------------------------------------------------------------------
(* Specifications *)

RetryInit == WhInit /\ ApiInit /\ LimiterInit /\ BreakerInit /\ RouteInit /\ NqInit /\ NsInit /\ BcInit /\ now = 0

RetryNext ==
    \/ \E cfg \in WebhookConfigs : SendWebhookStart(cfg)
    \/ \E kind \in FetchOutcomes : SendWebhookAttempt(kind)
    \/ SendWebhookWake
    \/ \E cfg \in ApiConfigs, req \in ApiRequests, o \in RequestOptionsSet :
          DirectApiCall("c1", cfg, req, o)
    \/ \E kind \in FetchOutcomes :
          MakeApiCallAttempt("c1", kind) /\ UNCHANGED <<whVars, now, rlVars, swVars, cbVars, routeVars, nqVars, nsVars, bcVars>>
    \/ MakeApiCallWake("c1") /\ UNCHANGED <<whVars, now, rlVars, swVars, cbVars, routeVars, nqVars, nsVars, bcVars>>

SpecRetry == RetryInit /\ [][RetryNext]_vars

FixedInit == WhInit /\ ApiInit /\ LimiterInit /\ BreakerInit /\ RouteInit /\ NqInit /\ NsInit /\ BcInit /\ now = 0

FixedNext ==
    \/ \E c \in Callers : CheckRateLimitBegin(c)
    \/ \E c \in Callers : CheckRateLimitExec(c)
    \/ LimiterTick

SpecFixed == FixedInit /\ [][FixedNext]_vars

\* the checkRateLimit and getRateLimitStats calls made so far
LimiterOps == Len(rlResults) + Cardinality({d \in Callers : rlPc[d] = "exec"})

\* every operation of RateLimitService on the fixed-window counters of one identifier
LimiterOpsNext ==
    \/ \E c \in Callers : LimiterOps < MaxLimiterOps /\ CheckRateLimitBegin(c)
    \/ \E c \in Callers : CheckRateLimitExec(c)
    \/ \E c \in Callers : ResetRateLimitKeys(c)
    \/ \E c \in Callers : ResetRateLimitDel(c)
    \/ \E c \in Callers : LimiterOps < MaxLimiterOps /\ GetRateLimitStats(c)
    \/ LimiterTick

SpecLimiterOps == FixedInit /\ [][LimiterOpsNext]_vars

SlidingNext ==
    \/ CheckSlidingWindowRateLimit
    \/ LimiterTick

SpecSliding == FixedInit /\ [][SlidingNext]_vars

BreakerSeqInit == WhInit /\ ApiInit /\ LimiterInit /\ BreakerInit /\ RouteInit /\ NqInit /\ NsInit /\ BcInit /\ now = Epoch

BreakerNext ==
    \/ CheckCircuitBreaker
    \/ RecordCircuitBreakerSuccess
    \/ RecordCircuitBreakerFailure
    \/ \E dt \in TickSizes : BreakerTick(dt)

SpecBreaker == BreakerSeqInit /\ [][BreakerNext]_vars

\* the service starts on an empty store, or on one where earlier calls to the
\* target have failed just short of the threshold
RouteSpecInit ==
    /\ WhInit /\ ApiInit /\ LimiterInit /\ RouteInit /\ NqInit /\ NsInit /\ BcInit /\ now = Epoch
    /\ ticks = 0 /\ cbOps = 0 /\ cbStreak = NoStreak
    /\ cbCheck = [state |-> "none", failureCount |-> 0, lastFailureTime |-> Null, at |-> Null]
    /\ cb \in {NoHash, FailuresRecorded(FailureThreshold - 1, Epoch)}

RouteNext ==
    \/ \E c \in Callers : RouteCheckRead(c)
    \/ \E c \in Callers : RouteCheckHSet(c)
    \/ \E c \in Callers, cfg \in RouteConfigs, req \in ApiRequests : RouteCall(c, cfg, req)
    \/ \E c \in Callers, kind \in RouteOutcomes : RouteApiAttempt(c, kind)
    \/ \E c \in Callers : RouteApiWake(c)
    \/ \E c \in Callers : RouteSuccessHSet(c)
    \/ \E c \in Callers : RouteSuccessHDel(c)
    \/ \E c \in Callers : RouteFailureHIncrBy(c)
    \/ \E c \in Callers : RouteFailureHSetTime(c)
    \/ \E c \in Callers : RouteFailureHSetOpen(c)
    \/ \E c \in Callers : RouteFailureExpire(c)
    \/ \E dt \in RouteTickSizes : RouteTick(dt)

SpecRoute == RouteSpecInit /\ [][RouteNext]_vars

QueueInit == WhInit /\ ApiInit /\ LimiterInit /\ BreakerInit /\ RouteInit /\ NqInit /\ NsInit /\ BcInit /\ now = Epoch

\* enqueues and the workers of processScheduledNotifications
PromoteNext ==
    \/ /\ Len(nqMeta) < MaxPromoted
       /\ \E type \in Channels, priority \in Priorities, scheduledAt \in ScheduleTimes :
             EnqueueCall(type, priority, scheduledAt)
    \/ \E w \in Workers : ProcessScheduledRead(w)
    \/ \E w \in Workers : ProcessScheduledLPush(w)
    \/ \E w \in Workers : ProcessScheduledZRem(w)
    \/ NqTick

SpecPromote == QueueInit /\ [][PromoteNext]_vars

\* enqueues alone, with every kind of scheduledAt
EnqueueNext ==
    \/ /\ Len(nqMeta) < MaxEnqueued
       /\ \E type \in Channels, priority \in Priorities, scheduledAt \in ScheduleTimes :
             EnqueueCall(type, priority, scheduledAt)
    \/ NqTick

SpecEnqueue == QueueInit /\ [][EnqueueNext]_vars

\* immediate enqueues and the consumers of the ready queues
DrainNext ==
    \/ \E type \in Channels, priority \in Priorities :
          EnqueueCall(type, priority, Null)
    \/ /\ nqDrain = NoDrain
       /\ \E type \in Channels, priority \in Priorities :
             /\ nqReady[QueueName(type, priority)] # <<>>
             /\ DequeueCall(type, priority)
    \/ \E type \in Channels : ProcessQueueStart(type)
    \/ ProcessQueueStep

SpecDrain == QueueInit /\ [][DrainNext]_vars

\* several consumers on the ready queues: direct dequeueNotification calls on
\* the partitions that have been used, emptied ones too, while a drain is
\* under way or not
ConsumeNext ==
    \/ /\ Len(nqMeta) < MaxConsumed
       /\ \E type \in Channels, priority \in Priorities :
             EnqueueCall(type, priority, Null)
    \/ \E i \in 1..Len(nqPushes) : DequeueCall(nqPushes[i].queue[1], nqPushes[i].queue[2])
    \/ \E type \in Channels : ProcessQueueStart(type)
    \/ ProcessQueueStep

SpecConsume == QueueInit /\ [][ConsumeNext]_vars

\* the one caller of POST /process-scheduled when promotions do not overlap
Scheduler == "w1"

\* the notification service as deployed: sends over HTTP, the scheduler
\* endpoint called by one periodic job, the drain endpoints, with small
\* per-minute limits configured
SendInit ==
    /\ WhInit /\ ApiInit /\ LimiterInit /\ BreakerInit /\ RouteInit /\ NqInit /\ BcInit
    /\ now = Epoch
    /\ nsLimit \in SmallLimits
    /\ nsPc = [s \in Senders |-> "idle"]
    /\ nsData = [s \in Senders |-> NoSend]
    /\ nsResult = [s \in Senders |-> "none"]
    /\ nsHistory = <<>>
    /\ nsHandled = 0
    /\ nsSends = 0

SendNext ==
    \/ \E type \in Channels, priority \in Priorities, scheduledAt \in ScheduleTimes :
          SendStart(type, priority, scheduledAt)
    \/ DrainSendStart
    \/ \E s \in Senders : SendCheck(s)
    \/ \E s \in Senders : SendEnqueue(s)
    \/ \E s \in Senders, ok \in BOOLEAN : SendProvider(s, ok)
    \/ ProcessScheduledRead(Scheduler)
    \/ ProcessScheduledLPush(Scheduler)
    \/ ProcessScheduledZRem(Scheduler)
    \/ \E type \in Channels : ProcessQueueStart(type)
    \/ /\ nsPc["drain"] = "idle"
       /\ nsHandled = Len(nqSent)
       /\ ProcessQueueStep
    \/ NqTick

SpecSend == SendInit /\ [][SendNext]_vars

\* sends and the scheduler, the ready queues left undrained
ScheduleNext ==
    \/ \E type \in Channels, priority \in Priorities, scheduledAt \in ScheduleTimes :
          SendStart(type, priority, scheduledAt)
    \/ SendCheck("http")
    \/ SendEnqueue("http")
    \/ \E ok \in BOOLEAN : SendProvider("http", ok)
    \/ ProcessScheduledRead(Scheduler)
    \/ ProcessScheduledLPush(Scheduler)
    \/ ProcessScheduledZRem(Scheduler)
    \/ NqTick

SpecSchedule == SendInit /\ [][ScheduleNext]_vars

\* broadcasts over a table of three webhooks; rows may be deleted meanwhile
BroadcastInit ==
    /\ WhInit /\ ApiInit /\ LimiterInit /\ BreakerInit /\ RouteInit /\ NqInit /\ NsInit
    /\ now = 0
    /\ bcRows \in [Targets -> BroadcastConfigs]
    /\ bcPc = "idle"
    /\ bcTarget = [t \in Targets |-> NoDelivery]
    /\ bcCount = 0

\* the steps of the deliveries and the end of the broadcast
BroadcastProgress ==
    \/ \E t \in Targets : BroadcastLoad(t)
    \/ \E t \in Targets, kind \in FetchOutcomes : BroadcastAttempt(t, kind)
    \/ \E t \in Targets : BroadcastWake(t)
    \/ BroadcastReturn

BroadcastNext ==
    \/ BroadcastEvent
    \/ \E t \in Targets : DeleteWebhookConfig(t)
    \/ BroadcastProgress

\* every await of a running broadcast ends: the exchange ends (by the
\* timeout at the latest) and the timer of the delay fires
SpecBroadcast == BroadcastInit /\ [][BroadcastNext]_vars /\ WF_vars(BroadcastProgress)




----------------------------------------------------------------------------
(* Claims about the retry loops, checked under SpecRetry *)

WhExecuted == whPc = "done" /\ whOutcome \in {"delivered", "failed"}

WhAllFailed == \A i \in 1..Len(webhookDeliveries) : ~webhookDeliveries[i].success

ApiFinished(c) == apiPc[c] \in {"returned", "threw"} /\ apiOutcome[c] \in {"returned", "exhausted"}

\* attempts of caller c that were executed so far
ApiAttemptsMade(c) ==
    IF apiPc[c] = "idle" \/ apiOutcome[c] \in {"not_found", "inactive"} THEN 0
    ELSE IF apiPc[c] = "attempt" \/ apiPc[c] = "threw" THEN apiAttempt[c]
    ELSE apiAttempt[c] + 1

\* every attempt of caller c so far failed by makeApiCall's own test: it threw
ApiAllFailed(c) ==
    \A i \in 1..Len(integrationRequests[c]) : integrationRequests[c][i].error # "none"

\* C1: with n the configured maxRetries of the target, a delivery all of whose
\* attempts fail makes and records exactly n+1 attempts (never more while it
\* runs, exactly n+1 when it ends) and ends with a failure reported to the
\* caller, on the webhook path and on the API-call path.
C1_ExactlyNPlusOneAttempts ==
    /\ WhAllFailed /\ whPc # "idle" /\ whOutcome \notin {"not_found", "inactive", "skipped"}
         => /\ Len(webhookDeliveries) <= whCfg.retryAttempts + 1
            /\ whPc = "done" => /\ Len(webhookDeliveries) = whCfg.retryAttempts + 1
                                /\ whOutcome = "failed"
    /\ \A c \in Callers :
         ApiAllFailed(c) /\ ~apiReq[c].badUrl /\ ApiFinished(c)
         => /\ ApiAttemptsMade(c) = apiMaxRetries[c] + 1
            /\ Len(integrationRequests[c]) = apiMaxRetries[c] + 1
            /\ apiOutcome[c] = "exhausted"

\* C2: when the first successful attempt has index k, exactly k+1 attempts are
\* recorded (k failures, then the success, numbered in order on the webhook
\* path), the delivery reports success, and exactly k backoff sleeps were
\* taken, so that nothing is attempted, recorded or slept after the success.
C2_StopsAtFirstSuccess ==
    /\ whOutcome = "delivered"
         => /\ whPc = "done"
            /\ whAttempt <= whMaxRetries
            /\ Len(webhookDeliveries) = whAttempt + 1
            /\ \A i \in 1..Len(webhookDeliveries) :
                  /\ webhookDeliveries[i].retryCount = i - 1
                  /\ webhookDeliveries[i].success <=> (i = whAttempt + 1)
            /\ Len(whSleeps) = whAttempt
    /\ \A c \in Callers :
         apiOutcome[c] = "returned"
         => /\ apiPc[c] = "returned"
            /\ apiAttempt[c] <= apiMaxRetries[c]
            /\ Len(integrationRequests[c]) = apiAttempt[c] + 1
            /\ \A i \in 1..Len(integrationRequests[c]) :
                  (integrationRequests[c][i].error = "none") <=> (i = apiAttempt[c] + 1)
            /\ Len(apiSleeps[c]) = apiAttempt[c]

\* a delivery that succeeded on its third attempt (k = 2)
C2_Witness ==
    /\ whOutcome = "delivered" /\ whAttempt = 2
    /\ Len(webhookDeliveries) = 3 /\ Len(whSleeps) = 2

\* C3: a target stored with retryAttempts = 0 gets exactly one attempt and no
\* retry, on the webhook path and on the API-call path.
C3_ZeroRetriesOneAttempt ==
    /\ whPc # "idle" /\ whCfg.found /\ whCfg.retryAttempts = 0
         => /\ Len(webhookDeliveries) <= 1
            /\ whSleeps = <<>>
            /\ WhExecuted => Len(webhookDeliveries) = 1
    /\ \A c \in Callers :
         apiPc[c] # "idle" /\ apiCfg[c].found /\ apiMaxRetries[c] = 0
         /\ apiOutcome[c] \notin {"not_found", "inactive"}
         => /\ ApiAttemptsMade(c) <= 1
            /\ apiSleeps[c] = <<>>
            /\ ApiFinished(c) => ApiAttemptsMade(c) = 1

\* C4: the i-th sleep of a delivery is the one before attempt i (i >= 1) and
\* lasts base * 2^(i-1), base being 1000 ms for a webhook and the resolved
\* retryDelay for an API target; there are never more sleeps than failed
\* attempts that have a successor, so none before attempt 0 and none after
\* the last allowed attempt.
C4_ExponentialBackoff ==
    /\ \A i \in 1..Len(whSleeps) :
          /\ whSleeps[i].before = i
          /\ whSleeps[i].ms = WebhookBaseDelay * Pow2(i - 1)
    /\ Len(whSleeps) <= whMaxRetries
    /\ Len(whSleeps) = (IF whPc = "sleep" THEN whAttempt + 1 ELSE
                        IF whOutcome = "failed" THEN whAttempt - 1 ELSE whAttempt)
    /\ \A c \in Callers :
          /\ \A i \in 1..Len(apiSleeps[c]) :
                /\ apiSleeps[c][i].before = i
                /\ apiSleeps[c][i].ms = apiRetryDelay[c] * Pow2(i - 1)
          /\ Len(apiSleeps[c]) <= apiMaxRetries[c]
          /\ Len(apiSleeps[c]) = (IF apiPc[c] = "sleep" THEN apiAttempt[c] + 1 ELSE
                                 IF apiOutcome[c] = "exhausted" THEN apiAttempt[c] - 1
                                 ELSE apiAttempt[c])

\* an API call that failed three times with base delay 100: it slept 100,
\* then 200, and did not sleep after its last attempt
C4_Witness ==
    /\ apiOutcome["c1"] = "exhausted" /\ apiMaxRetries["c1"] = 2 /\ apiRetryDelay["c1"] = 100
    /\ Len(apiSleeps["c1"]) = 2 /\ apiSleeps["c1"][2].ms = 200

----------------------------------------------------------------------------
(* Claims about the limiters *)

\* the calls that ran on the same key before the i-th call
SameKeyBefore(i) == {j \in 1..(i - 1) : rlResults[j].key = rlResults[i].key}

\* the i-th call ran while the window of its key lasted
InWindow(i) == rlResults[i].at < rlResults[i].key + WindowMs

\* C5: the k-th checkRateLimit call of a window returns totalRequests = k and
\* allowed = (k <= maxRequests): the first maxRequests calls are allowed, call
\* maxRequests + 1 and all later ones are denied, and the first call after
\* the window boundary floor(now/windowMs)*windowMs has moved counts as 1
\* again and is allowed.
C5_FixedWindowCounts ==
    \A i \in 1..Len(rlResults) :
        LET k == Cardinality(SameKeyBefore(i)) + 1 IN
        InWindow(i) =>
            /\ rlResults[i].key = (rlResults[i].begun \div WindowMs) * WindowMs
            /\ rlResults[i].totalRequests = k
            /\ rlResults[i].allowed <=> (k <= MaxRequests)
            /\ k = 1 => rlResults[i].allowed /\ rlResults[i].totalRequests = 1

\* maxRequests allowed calls, one denied call, and the first call of the next
\* window, which is allowed and counts as 1
C5_Witness ==
    /\ Len(rlResults) = MaxRequests + 2
    /\ \A i \in 1..MaxRequests : rlResults[i].allowed /\ rlResults[i].key = 0
    /\ ~rlResults[MaxRequests + 1].allowed /\ rlResults[MaxRequests + 1].key = 0
    /\ rlResults[MaxRequests + 2].key = WindowMs
    /\ rlResults[MaxRequests + 2].allowed
    /\ rlResults[MaxRequests + 2].totalRequests = 1

\* C6: among interleaved calls on one key inside its window no two observe
\* the same totalRequests, at most maxRequests are allowed, and the stored
\* count equals the number of calls made, allowed or denied.
C6_FixedWindowAtomic ==
    /\ \A i, j \in 1..Len(rlResults) :
          i < j /\ rlResults[i].key = rlResults[j].key /\ InWindow(j)
          => rlResults[i].totalRequests # rlResults[j].totalRequests
    /\ \A i \in 1..Len(rlResults) :
          InWindow(i) =>
             Cardinality({j \in SameKeyBefore(i) \cup {i} : rlResults[j].allowed}) <= MaxRequests
    /\ \A k \in DOMAIN rlStore :
          now < k + WindowMs =>
             rlStore[k].count = Cardinality({i \in 1..Len(rlResults) : rlResults[i].key = k})

\* two calls overlapped (the later one to run had read the clock before the
\* earlier one ran), both were counted, and a third one was denied
C6_Witness ==
    \E i, j, d \in 1..Len(rlResults) :
        /\ i < j /\ j < d
        /\ rlResults[j].begun < rlResults[i].at
        /\ rlResults[i].key = rlResults[j].key /\ rlResults[j].key = rlResults[d].key
        /\ InWindow(d)
        /\ rlResults[i].totalRequests + 1 = rlResults[j].totalRequests
        /\ ~rlResults[d].allowed

\* the calls before the i-th whose timestamp is newer than its now - windowMs
SlidingRecent(i) ==
    {j \in 1..(i - 1) : swResults[j].at > swResults[i].at - WindowMs}

----------------------------------------------------------------------------
(* Claims about the circuit breaker, calls made one after the other *)

\* what the life cycle promises of the check that has just returned
LifeCycle ==
    /\ cbStreak.n >= FailureThreshold /\ now - cbStreak.lastAt <= RecoveryTimeout
         => cbCheck.state = "open"
    /\ cbStreak.n >= FailureThreshold /\ now - cbStreak.lastAt > RecoveryTimeout
         => cbCheck.state = "half-open"
    /\ cbStreak.n = 0
         => cbCheck.state = "closed" /\ cbCheck.failureCount = 0

----------------------------------------------------------------------------
(* Claims about the circuit breaker around POST /api-configs/:id/call *)

\* the state of the target's breaker as stored: a missing key or field reads as closed
StoredState(h) == BreakerView(h).state

\* the four transitions the breaker is allowed, for one step of the store; the
\* failure count of closed->open is the stored one or the one the writer of
\* the step had compared with the threshold
ListedTransition ==
    \/ StoredState(cb') = StoredState(cb)
    \/ /\ StoredState(cb) = "closed" /\ StoredState(cb') = "open"
       /\ \/ BreakerView(cb').failureCount >= FailureThreshold
          \/ \E c \in Callers : /\ routePc[c] = "failure_hset_open"
                                 /\ routePc'[c] = "failure_expire"
                                 /\ routeLocal[c].failureCount >= FailureThreshold
    \/ /\ StoredState(cb) = "open" /\ StoredState(cb') = "half-open"
       /\ cb.lastFailureTime # Null /\ now - cb.lastFailureTime >= RecoveryTimeout
    \/ /\ StoredState(cb) = "half-open" /\ StoredState(cb') \in {"closed", "open"}

\* C9: in every execution, with concurrent calls to the target, calls in
\* flight when the breaker opens and the expiry of the key, the stored state
\* changes only closed->open (failure count >= threshold), open->half-open
\* (recovery timeout elapsed), half-open->closed or half-open->open; never
\* open->closed.
C9_OnlyListedTransitions == [][ListedTransition]_vars

\* the request of caller c has just been checked and the check returned open
CheckReturnedOpen(c) ==
    /\ routePc[c] = "idle"
    /\ routeCalls' = routeCalls + 1
    /\ routeCheck'[c] = "open"

\* C10: when checkCircuitBreaker returns open the request is answered 503 in
\* the same step: the handler is back at rest, makeApiCall has not been
\* entered (no attempt, no delay, no row in integration_requests) and the
\* breaker record is what it was; a request whose check returned open is
\* never found anywhere but at rest with its 503.
C10_OpenRejectsAtOnce ==
    /\ [](\A c \in Callers : routeCheck[c] = "open" =>
              /\ routePc[c] = "idle" /\ routeResp[c] = "503"
              /\ apiPc[c] = "idle" /\ apiAttempt[c] = 0
              /\ integrationRequests[c] = <<>> /\ apiSleeps[c] = <<>>)
    /\ [][\A c \in Callers : CheckReturnedOpen(c) =>
              /\ routePc'[c] = "idle" /\ routeResp'[c] = "503"
              /\ UNCHANGED <<cb, apiVars>>]_vars

\* a request turned away with 503 while the stored state is open
C10_Witness ==
    \E c \in Callers :
        /\ routeCheck[c] = "open" /\ routeResp[c] = "503"
        /\ StoredState(cb) = "open" /\ cb.failureCount >= FailureThreshold

\* the request of caller c is inside makeApiCall or about to enter it
InCall(c) == routePc[c] \in {"call", "api"}

\* the request of caller c has been answered after its call
Answered(c) == routePc[c] = "idle" /\ routeResp[c] \in {"200", "500"}

\* C11: a request through POST /api-configs/:id/call checks the breaker once,
\* before the first attempt, and updates it once, after the retry sequence:
\* no attempt or backoff step touches the breaker record, a call that fails on
\* all its attempts raises failureCount by exactly 1 in one step, and a call
\* that succeeds after failed attempts records one success and no failure.
C11_CheckOnceUpdateOnce ==
    /\ [](\A c \in Callers :
            /\ InCall(c) => routeOps[c] = [checks |-> 1, successes |-> 0, failures |-> 0,
                                          attempts |-> routeOps[c].attempts]
            /\ routePc[c] = "call" => routeOps[c].attempts = 0
            /\ routePc[c] # "idle" => routeOps[c].checks = 1
            /\ routeOps[c].successes + routeOps[c].failures <= 1
            /\ Answered(c) => /\ routeOps[c].checks = 1
                              /\ routeOps[c].successes + routeOps[c].failures = 1
                              /\ routeResp[c] = "200" <=> routeOps[c].successes = 1)
    /\ [][\A c \in Callers :
            /\ (/\ routePc[c] = "api" /\ routePc'[c] = "api"
                /\ apiPc'[c] # apiPc[c] \/ routeOps'[c].attempts # routeOps[c].attempts)
                 => (cb' = cb /\ routeOps'[c].checks = 1)
            /\ routeOps'[c].failures = routeOps[c].failures + 1
                 => /\ apiPc[c] = "threw"
                    /\ BreakerView(cb').failureCount = BreakerView(cb).failureCount + 1
            /\ routeOps'[c].successes = routeOps[c].successes + 1
                 => apiPc[c] = "returned"]_vars
    /\ [][BreakerView(cb').failureCount > BreakerView(cb).failureCount
            => \E c \in Callers : /\ routeOps'[c].failures = routeOps[c].failures + 1
                                  /\ BreakerView(cb').failureCount
                                       = BreakerView(cb).failureCount + 1]_vars

\* one request answered 500 after two failed attempts with one failure
\* recorded, another answered 200 after a failed and a successful attempt
\* with no failure recorded
C11_Witness ==
    /\ Answered("c1") /\ routeResp["c1"] = "500"
    /\ routeOps["c1"] = [checks |-> 1, successes |-> 0, failures |-> 1, attempts |-> 2]
    /\ Answered("c2") /\ routeResp["c2"] = "200"
    /\ routeOps["c2"] = [checks |-> 1, successes |-> 1, failures |-> 0, attempts |-> 2]

\* makeApiCall has refused the target of caller c: no row, or an inactive one
Refused(c) == apiPc[c] = "threw" /\ apiOutcome[c] \in {"not_found", "inactive"}

\* C12: a call to a target that is not found or is inactive fails at once:
\* no attempt, no backoff sleep, and the steps the request takes from there
\* leave failureCount and state of the target's breaker record as they were.
C12_RefusalLeavesBreaker ==
    [][\A c \in Callers :
          Refused(c) /\ routePc'[c] # routePc[c]
            => /\ routeOps[c].attempts = 0 /\ apiSleeps[c] = <<>>
               /\ BreakerView(cb').failureCount = BreakerView(cb).failureCount
               /\ BreakerView(cb').state = BreakerView(cb).state]_vars

----------------------------------------------------------------------------
(* Claims about the kinds of failure, checked under SpecRetry *)

\* the attempt behind a row of webhook_deliveries ended with a network
\* failure, a timeout or a 5xx response
WhTransient(row) == row.kind \in {"5xx", "network", "timeout"}

\* the same for a row of integration_requests
ApiTransient(row) == row.status = "5xx" \/ row.error \in {"network", "timeout"}

\* C13: on both paths an attempt that ends with a network failure, a timeout
\* or a 5xx response is a failed attempt: while attempts remain the delivery
\* goes on to the backoff sleep and the retry, and a delivery whose last
\* attempt ended so has made maxRetries+1 attempts and is reported as failed.
C13_TransientIsRetried ==
    /\ Len(webhookDeliveries) > 0 /\ WhTransient(webhookDeliveries[Len(webhookDeliveries)])
         => IF Len(webhookDeliveries) < whMaxRetries + 1
            THEN whPc \in {"sleep", "attempt"}
            ELSE whPc = "done" /\ whOutcome = "failed"
    /\ \A c \in Callers :
         LET rows == integrationRequests[c] IN
         Len(rows) > 0 /\ ApiTransient(rows[Len(rows)])
         => IF Len(rows) < apiMaxRetries[c] + 1
            THEN apiPc[c] \in {"sleep", "attempt"}
            ELSE apiPc[c] = "threw" /\ apiOutcome[c] = "exhausted"

\* C14: a call whose endpoint is malformed fails on the first try: once the
\* first attempt has run there is exactly one logged failure, the call has
\* thrown, no further attempt is made and no backoff sleep is taken.
C14_MalformedUrlFailsOnce ==
    \A c \in Callers :
        apiReq[c].badUrl /\ ApiAttemptsMade(c) >= 1
        => /\ ApiAttemptsMade(c) = 1
           /\ apiPc[c] = "threw"
           /\ Len(integrationRequests[c]) = 1
           /\ integrationRequests[c][1].error # "none"
           /\ apiSleeps[c] = <<>>

\* attempts of the webhook delivery that were executed so far
WhAttemptsMade ==
    IF whPc = "idle" \/ whOutcome \in {"not_found", "inactive", "skipped"} THEN 0
    ELSE IF whPc = "attempt" \/ whOutcome = "failed" THEN whAttempt
    ELSE whAttempt + 1

\* C15: every executed attempt, successful or failed, adds exactly one record
\* to the history of its path, so the records a delivery has added are as
\* many as the attempts it has executed, and the k-th attempt (counted from
\* 0) is recorded with attempt number k.
C15_OneRecordPerAttempt ==
    /\ Len(webhookDeliveries) = WhAttemptsMade
    /\ \A i \in 1..Len(webhookDeliveries) : webhookDeliveries[i].retryCount = i - 1
    /\ \A c \in Callers :
          /\ Len(integrationRequests[c]) = ApiAttemptsMade(c)
          /\ \A i \in 1..Len(integrationRequests[c]) :
                 integrationRequests[c][i].retryCount = i - 1

----------------------------------------------------------------------------
(* Claims about processScheduledNotifications, checked under SpecPromote *)

\* the pushes made by processScheduledNotifications
PromotedRows == {i \in 1..Len(nqPushes) : nqPushes[i].by \in Workers}

\* C16: processScheduledNotifications never promotes an entry twice, also
\* when calls of it overlap: no entry is pushed onto a ready queue more than
\* once, and an entry that was pushed is gone from the scheduled store as
\* soon as the call that pushed it has passed its ZREM.
C16_PromotedExactlyOnce ==
    /\ \A i, j \in PromotedRows : nqPushes[i].id = nqPushes[j].id => i = j
    /\ \A i \in PromotedRows :
          LET w == nqPushes[i].by IN
          (\E e \in nqScheduled : e.id = nqPushes[i].id)
          => nqPc[w] = "zrem" /\ nqSnap[w][1] = nqPushes[i].id

\* C17: an entry scheduled for channel c with priority p is promoted into the
\* ready queue of channel c and priority p and into no other.
C17_PromotedIntoOwnPartition ==
    \A i \in PromotedRows :
        nqPushes[i].queue = QueueName(nqMeta[nqPushes[i].id].type,
                                      nqMeta[nqPushes[i].id].priority)

----------------------------------------------------------------------------
(* Claim about enqueueNotification alone, checked under SpecEnqueue *)

\* C18: enqueueNotification called with a scheduledAt that is not in the
\* future does what the call without scheduledAt does: the entry goes to the
\* head of the ready queue of its channel and priority, no other ready queue
\* changes, and nothing is added to the scheduled store.
C18_PastScheduleIsImmediate ==
    [][Len(nqMeta') = Len(nqMeta) + 1
       => LET id == Len(nqMeta')
              m == nqMeta'[id]
          IN (m.scheduledAt = Null \/ m.scheduledAt <= now)
             => /\ nqScheduled' = nqScheduled
                /\ nqReady' = [nqReady EXCEPT ![QueueName(m.type, m.priority)] =
                                                  <<id>> \o @]]_vars

\* an entry enqueued with a scheduledAt in the past waits in its ready queue
C18_Witness ==
    \E id \in 1..Len(nqMeta) :
        /\ nqMeta[id].scheduledAt # Null
        /\ nqMeta[id].scheduledAt < Epoch
        /\ nqReady[QueueName(nqMeta[id].type, nqMeta[id].priority)][1] = id
        /\ \A e \in nqScheduled : e.id # id

----------------------------------------------------------------------------
(* Claims about the consumers of the ready queues, checked under SpecDrain *)

\* the position of the push that put entry id into a ready queue
PushIndex(id) == CHOOSE i \in 1..Len(nqPushes) : nqPushes[i].id = id

\* C19, as stated: dequeueNotification returns the entry that was pushed
\* onto the partition last among those still in it (last in, first out).
C19_DequeueIsLifo ==
    nqPopped.id # 0
    => \A k \in 1..Len(nqPopped.before) :
           PushIndex(nqPopped.id) >= PushIndex(nqPopped.before[k])

\* C19, amended: dequeueNotification returns the entry that was pushed onto
\* the partition first among those still in it (first in, first out).
C19_DequeueIsFifo ==
    nqPopped.id # 0
    => \A k \in 1..Len(nqPopped.before) :
           PushIndex(nqPopped.id) <= PushIndex(nqPopped.before[k])

\* a dequeue from a partition that held more than one entry
C19_Witness ==
    /\ nqPopped.id # 0
    /\ Len(nqPopped.before) >= 2

\* the place of a priority in the order of the drain loop
PriorityRank(p) == CHOOSE i \in 1..Len(DrainOrder) : DrainOrder[i] = p

\* C20: process<Channel>Queue is strict-priority: when it hands an entry of
\* some priority to the send, no queue of the same channel with a higher
\* priority still holds an entry that was there when the drain began.
C20_StrictPriorityDrain ==
    [][Len(nqSent') > Len(nqSent)
       => LET e == nqSent'[Len(nqSent')] IN
          \A p \in Priorities :
              PriorityRank(p) < PriorityRank(e.queue[2])
              => \A k \in 1..Len(nqReady'[QueueName(e.queue[1], p)]) :
                     PushIndex(nqReady'[QueueName(e.queue[1], p)][k]) > nqDrain.from]_vars

\* C21: one drain call terminates, and when nothing is enqueued while it
\* runs it returns only after the high, normal and low ready queues of its
\* channel are all empty.
C21_DrainEmptiesChannel ==
    /\ [](nqDrain.idx <= Len(DrainOrder))
    /\ [][(nqDrain # NoDrain /\ nqDrain' = NoDrain /\ Len(nqPushes') = nqDrain.from)
          => \A p \in Priorities : nqReady'[QueueName(nqDrain.type, p)] = <<>>]_vars

----------------------------------------------------------------------------
(* Claim about concurrent consumers, checked under SpecConsume *)

\* C22: an entry put on a ready queue by one enqueue is returned by at most
\* one dequeueNotification call, whoever calls and in whatever order; a
\* dequeue that returns an entry shortens its queue by exactly one and
\* touches no other queue, and a dequeue on an empty queue returns null and
\* changes nothing.
C22_AtMostOnceDequeue ==
    /\ [](\A i, j \in 1..Len(nqTaken) : nqTaken[i] = nqTaken[j] => i = j)
    /\ [][(nqPopped' # nqPopped \/ nqTaken' # nqTaken)
          => LET q == nqPopped'.queue IN
             IF nqPopped'.id # 0
             THEN /\ nqTaken' = Append(nqTaken, nqPopped'.id)
                  /\ Len(nqReady'[q]) = Len(nqReady[q]) - 1
                  /\ \A k \in 1..Len(nqReady'[q]) : nqReady'[q][k] # nqPopped'.id
                  /\ \A o \in QueueNames \ {q} : nqReady'[o] = nqReady[o]
             ELSE /\ nqReady[q] = <<>>
                  /\ nqReady' = nqReady
                  /\ nqTaken' = nqTaken]_vars

\* a drain and a direct consumer have each taken one entry of the same
\* partition, and a further dequeue has found the partition empty
C22_Witness ==
    /\ nqDrain # NoDrain
    /\ Len(nqTaken) = 2
    /\ Len(nqSent) = 1
    /\ QueueName(nqMeta[nqTaken[1]].type, nqMeta[nqTaken[1]].priority) = nqPopped.queue
    /\ QueueName(nqMeta[nqTaken[2]].type, nqMeta[nqTaken[2]].priority) = nqPopped.queue
    /\ nqPopped.id = 0

----------------------------------------------------------------------------
(* Claim about scheduled sends, checked under SpecSchedule *)

\* the step by which the send of caller s returns
SendReturns(s) == nsPc[s] # "idle" /\ nsPc'[s] = "idle"

\* the entries enqueueNotification has added in this step
NewEntries == (Len(nqMeta) + 1)..Len(nqMeta')

\* entries leave the scheduled store only by the ZREM of a promotion that
\* has pushed them
HeldUntilPromoted ==
    \A e \in nqScheduled \ nqScheduled' :
        \E w \in Workers :
            /\ nqPc[w] = "zrem"
            /\ nqSnap[w][1] = e.id
            /\ \E i \in 1..Len(nqPushes) : nqPushes[i].id = e.id /\ nqPushes[i].by = w

----------------------------------------------------------------------------
(* Claim about broadcastEvent, checked under SpecBroadcast *)

\* the delivery to target t has been started and has not yet ended
Delivering(t) == bcTarget[t].pc \in {"load", "attempt", "sleep"}

\* C24: broadcastEvent starts a delivery for every active webhook subscribed
\* to the event's type; a step of one delivery, its throw included, leaves
\* the deliveries to the other targets as they are; a delivery to one target
\* ends as delivered exactly when its own last exchange succeeded; the
\* broadcast never throws, and once started it completes, every delivery
\* having ended.
C24_BroadcastIsolatesFailures ==
    /\ [](bcPc # "threw")
    /\ [](bcPc = "done" => \A t \in Targets : ~Delivering(t))
    /\ [](\A t \in Targets :
            bcTarget[t].pc = "returned" /\ bcTarget[t].last # "none"
            => bcTarget[t].last = "2xx")
    /\ [][bcCount' = bcCount + 1
          => \A t \in Targets :
                (bcRows[t].isActive /\ bcRows[t].subscribed /\ bcRows[t].found)
                => bcTarget'[t].pc = "load"]_vars
    /\ [][bcCount' = bcCount
          => \A t, u \in Targets :
                (t # u /\ bcTarget'[t] # bcTarget[t]) => bcTarget'[u] = bcTarget[u]]_vars
    /\ [](\A t \in Targets :
            (bcTarget[t].pc = "attempt" /\ bcTarget[t].attempt = 0)
            ~> (bcTarget[t].pc \in {"returned", "threw"} /\ bcTarget[t].last # "none"))
    /\ (bcPc = "running") ~> (bcPc = "done")

\* target B has failed every attempt and thrown, targets A and C have been
\* delivered to, and the broadcast has completed
C24_Witness ==
    /\ bcPc = "done"
    /\ bcTarget["B"].pc = "threw" /\ bcTarget["B"].last = "5xx"
    /\ bcTarget["A"].pc = "returned" /\ bcTarget["A"].last = "2xx"
    /\ bcTarget["C"].pc = "returned" /\ bcTarget["C"].last = "2xx"

----------------------------------------------------------------------------
(* Claim about the history of terminal outcomes, checked under SpecRetry *)

\* C25: every send that has reached a terminal outcome (delivered, exhausted,
\* rejected because the target is missing or inactive) has left at least one
\* history record: a webhook delivery that is over has a row in
\* webhook_deliveries, an API call that has returned or thrown has a row in
\* integration_requests.
C25_EveryOutcomeRecorded ==
    /\ (whPc = "done" /\ whOutcome \in {"delivered", "failed", "not_found", "inactive"})
       => Len(webhookDeliveries) >= 1
    /\ \A c \in Callers :
          apiPc[c] \in {"returned", "threw"} => Len(integrationRequests[c]) >= 1

----------------------------------------------------------------------------
(* Claims about concurrent calls on one breaker, checked under SpecRoute *)

\* C26: whatever the interleaving of checkCircuitBreaker,
\* recordCircuitBreakerSuccess and recordCircuitBreakerFailure calls on one
\* target, the stored record is consistent: its state is open or half-open
\* only with failureCount >= failureThreshold and lastFailureTime set, and a
\* write that makes the state closed leaves failureCount = 0.
C26_BreakerRecordConsistent ==
    /\ [](BreakerView(cb).state \in {"open", "half-open"}
          => /\ BreakerView(cb).failureCount >= FailureThreshold
             /\ BreakerView(cb).lastFailureTime # Null)
    /\ [][(cb'.state = "closed" /\ cb.state # "closed") => cb'.failureCount = 0]_vars

----------------------------------------------------------------------------
(* Claims about the stored fixed-window count, checked under SpecLimiterOps *)

\* the windows whose counters a run can touch
WindowKeys == {WindowStart(t, WindowMs) : t \in 0..MaxClock}

\* the step is the DEL of a resetRateLimit call
ResetStep == \E c \in Callers : rlPc[c] = "del" /\ rlPc'[c] = "idle"

\* C27 as stated: while a window lasts, the request count stored for it never
\* decreases, whatever operation of RateLimitService or key expiry takes the
\* step (checkRateLimit, resetRateLimit, getRateLimitStats).
C27_CountNeverDecreases ==
    [][\A k \in WindowKeys :
          (k <= now /\ now' < k + WindowMs)
          => StoredRequests(rlStore', k) >= StoredRequests(rlStore, k)]_vars

\* C27: while a window lasts, the request count stored for it never decreases
\* by a checkRateLimit or getRateLimitStats call or by key expiry; the only
\* step that lowers it is the DEL of resetRateLimit, which leaves it at zero;
\* a counter that appears starts at one, the request that created it.
C27_CountDecreasesOnlyByReset ==
    [][\A k \in WindowKeys :
          /\ (k <= now /\ now' < k + WindowMs /\ ~ResetStep)
             => StoredRequests(rlStore', k) >= StoredRequests(rlStore, k)
          /\ (k <= now /\ now' < k + WindowMs /\ ResetStep)
             => StoredRequests(rlStore', k) \in {0, StoredRequests(rlStore, k)}
          /\ (k \notin DOMAIN rlStore /\ k \in DOMAIN rlStore')
             => rlStore'[k].count = 1 /\ k = WindowStart(rlLocal[CHOOSE c \in Callers : rlPc[c] = "exec" /\ rlPc'[c] = "idle"].now, WindowMs)]_vars

\* a counter has been reset to zero inside its window, counted again, and
\* outlived a clock step of its window
C27_Witness ==
    /\ \E i, j \in 1..Len(rlResults) :
          /\ i < j
          /\ "totalRequests" \in DOMAIN rlResults[i] /\ "totalRequests" \in DOMAIN rlResults[j]
          /\ rlResults[i].key = rlResults[j].key
          /\ rlResults[j].totalRequests <= rlResults[i].totalRequests
          /\ rlResults[j].at < rlResults[j].key + WindowMs
    /\ \E k \in DOMAIN rlStore : k < now /\ now < k + WindowMs

\* the handlers whose call was admitted by a check that returned half-open and
\* whose outcome is not recorded yet
TrialsInFlight ==
    {c \in Callers : routePc[c] \in {"call", "api"} /\ routeCheck[c] = "half-open"}

\* C29: while the breaker is half-open at most one trial delivery is in
\* flight: a second concurrent call on the target is not admitted before the
\* outcome of the trial has been recorded.
C29_SingleTrial == Cardinality(TrialsInFlight) <= 1

----------------------------------------------------------------------------
(* Claims about admission of sends, checked under SpecSend *)

\* C28: every notification that a drain call has removed from a ready queue
\* is handed to the provider: none of them ends as a "rate limit exceeded"
\* failure of the admission check, whatever the backlog of the normal queue.
C28_DrainedIsDelivered ==
    \A i \in 1..Len(nsHistory) :
       nsHistory[i].entry # 0 => nsHistory[i].error # "rate_limit"

\* the history rows of one channel that record a hand-over to the provider
HandedToProvider(type) ==
    {i \in 1..Len(nsHistory) : nsHistory[i].type = type /\ nsHistory[i].error # "rate_limit"}

\* C30: within one minute (no run of the model lasts longer) at most the
\* channel's configured per-minute limit of notifications is handed to the
\* provider, whatever the interleaving of immediate sends and drains.
C30_PerMinuteLimit ==
    \A type \in Channels : Cardinality(HandedToProvider(type)) <= nsLimit[type]

====
